---- MODULE Spec2Model ----
(***************************************************************************)
(* BudgetGPT: the transaction store (src/database.py) and the transaction  *)
(* manager (src/transaction_manager.py) as a state machine.                *)
(*                                                                         *)
(* Python strings are sequences of one-character strings, so that          *)
(* str.lower(), datetime.strptime and float() are computed and not         *)
(* assumed.  Amounts are decimal numbers in sign/whole/thousandths form:   *)
(* the store's column is DECIMAL(10,2), whose range (10^10 cents) does not *)
(* fit a machine integer of TLC.                                           *)
(*                                                                         *)
(* The connection is one psycopg2 connection with autocommit off.  A       *)
(* statement that fails (a value the column cannot hold, an undefined      *)
(* column, a NULL in a NOT NULL column) raises an error that is neither    *)
(* OperationalError nor InterfaceError; no operation rolls back, so the    *)
(* connection's transaction stays aborted and every later statement on it  *)
(* raises InFailedSqlTransaction.  txn records that.                       *)
(*                                                                         *)
(* Specifications: Spec is the manager's interface, SpecStore the          *)
(* store's interface next to the manager's calls that fill and read the    *)
(* table, SpecBalance the balance of tables that Database.add_transaction  *)
(* fills, SpecFilter Database.filter_transactions over such tables,        *)
(* SpecRetry the retry loop of the store's operations under connectivity   *)
(* failures, SpecSharing the saved filters, the partnerships and the       *)
(* shares of filters, SpecRequests the partnership requests of two         *)
(* sessions whose statements interleave (SpecRequestsInTurn: one request   *)
(* at a time), SpecSummary the summary of src/pages/reports.py, SpecChat   *)
(* the chat of src/gpt_processor.py next to the calls of another session,  *)
(* SpecScope the deletion by scope of the text input of src/main.py.       *)
(***************************************************************************)
EXTENDS Integers, Sequences, FiniteSets, TLC

\* ------------------------------------------------------------------------
\* Bounds of the model
\* ------------------------------------------------------------------------

\* The number of INSERTs into transactions a behaviour performs at most.
MaxRows == 2

\* The same, for the behaviours that read balances.
MaxBalanceRows == 3

\* The numbers of INSERTs into user_partnerships, saved_filters and
\* shared_filters a behaviour performs at most.
MaxPartnerships == 1

MaxFilters == 1

MaxShares == 1

\* The number of INSERTs into user_partnerships of the behaviours in which
\* two sessions send requests at the same time.
MaxRequests == 2

\* ------------------------------------------------------------------------
\* Python values
\* ------------------------------------------------------------------------

NoStr == <<>>

NoDate == [y |-> 0, m |-> 0, d |-> 0]

\* A decimal number: (-1)^neg * (w + f/1000), f in thousandths.
Dec(neg, w, f) == [neg |-> neg, w |-> w, f |-> f]

DecZero == Dec(FALSE, 0, 0)

\* None, a str, an int, a float or a datetime.date of Python.
PyVal(t, s, v, d) == [t |-> t, s |-> s, v |-> v, d |-> d]

PyNone == PyVal("none", NoStr, DecZero, NoDate)

PyStr(s) == PyVal("str", s, DecZero, NoDate)

PyFloat(v) == PyVal("float", NoStr, v, NoDate)

PyInt(n) == PyVal("int", NoStr, Dec(n < 0, IF n < 0 THEN -n ELSE n, 0), NoDate)

PyDate(d) == PyVal("date", NoStr, DecZero, d)

Digits == <<"0", "1", "2", "3", "4", "5", "6", "7", "8", "9">>

IsDigit(c) == \E i \in 1..10 : Digits[i] = c

DigitVal(c) == (CHOOSE i \in 1..10 : Digits[i] = c) - 1

UpperCase == <<"A", "B", "C", "D", "E", "F", "G", "H", "I", "J", "K", "L", "M",
               "N", "O", "P", "Q", "R", "S", "T", "U", "V", "W", "X", "Y", "Z">>

LowerCase == <<"a", "b", "c", "d", "e", "f", "g", "h", "i", "j", "k", "l", "m",
               "n", "o", "p", "q", "r", "s", "t", "u", "v", "w", "x", "y", "z">>

\* str.lower() of one character and of a string.
LowerChar(c) ==
    IF \E i \in 1..26 : UpperCase[i] = c
    THEN LowerCase[CHOOSE i \in 1..26 : UpperCase[i] = c]
    ELSE c

str_lower(s) == [i \in 1..Len(s) |-> LowerChar(s[i])]

\* The value of the decimal digits s[a..b] (0 for an empty range).
RECURSIVE DigitsVal(_, _, _)
DigitsVal(s, a, b) ==
    IF b < a THEN 0 ELSE 10 * DigitsVal(s, a, b - 1) + DigitVal(s[b])

AllDigits(s, a, b) == \A i \in a..b : IsDigit(s[i])

\* ------------------------------------------------------------------------
\* datetime.strptime(s, '%Y-%m-%d').date()
\* ------------------------------------------------------------------------

IsLeap(y) == (y % 4 = 0 /\ y % 100 # 0) \/ y % 400 = 0

DaysInMonth(y, m) ==
    IF m = 2 THEN (IF IsLeap(y) THEN 29 ELSE 28)
    ELSE IF m \in {4, 6, 9, 11} THEN 30 ELSE 31

\* The character of s at position i, "" past the end.
At(s, i) == IF i \in 1..Len(s) THEN s[i] ELSE ""

\* Number of characters the directive %m takes at position p:
\* 1[0-2] | 0[1-9] | [1-9], the first alternative after which "-" follows.
MonthLen(s, p) ==
    IF At(s, p) = "1" /\ At(s, p + 1) \in {"0", "1", "2"} /\ At(s, p + 2) = "-" THEN 2
    ELSE IF At(s, p) = "0" /\ IsDigit(At(s, p + 1)) /\ At(s, p + 1) # "0"
            /\ At(s, p + 2) = "-" THEN 2
    ELSE IF IsDigit(At(s, p)) /\ At(s, p) # "0" /\ At(s, p + 1) = "-" THEN 1
    ELSE 0

\* Number of characters the directive %d takes at position p:
\* 3[01] | [12]\d | 0[1-9] | [1-9] | " "[1-9], the first that matches.
DayLen(s, p) ==
    IF At(s, p) = "3" /\ At(s, p + 1) \in {"0", "1"} THEN 2
    ELSE IF At(s, p) \in {"1", "2"} /\ IsDigit(At(s, p + 1)) THEN 2
    ELSE IF At(s, p) = "0" /\ IsDigit(At(s, p + 1)) /\ At(s, p + 1) # "0" THEN 2
    ELSE IF IsDigit(At(s, p)) /\ At(s, p) # "0" THEN 1
    ELSE IF At(s, p) = " " /\ IsDigit(At(s, p + 1)) /\ At(s, p + 1) # "0" THEN 2
    ELSE 0

\* The day the directive %d reads at position p, given its length n > 0.
DayVal(s, p, n) ==
    IF n = 1 THEN DigitVal(s[p])
    ELSE IF s[p] = " " THEN DigitVal(s[p + 1])
    ELSE DigitsVal(s, p, p + 1)

\* strptime: [ok, date].  ok is FALSE where strptime raises ValueError: the
\* text does not match, text remains after the match, or the day is out of
\* range for the month.
strptime(s) ==
    LET bad == [ok |-> FALSE, date |-> NoDate] IN
    IF ~(Len(s) >= 8 /\ AllDigits(s, 1, 4) /\ s[5] = "-") THEN bad
    ELSE LET ml == MonthLen(s, 6) IN
      IF ml = 0 THEN bad
      ELSE LET dp == 6 + ml + 1
               dl == DayLen(s, dp)
           IN
        IF dl = 0 \/ dp + dl - 1 # Len(s) THEN bad
        ELSE LET y == DigitsVal(s, 1, 4)
                 m == DigitsVal(s, 6, 6 + ml - 1)
                 d == DayVal(s, dp, dl)
             IN
          IF y < 1 \/ d > DaysInMonth(y, m) THEN bad
          ELSE [ok |-> TRUE, date |-> [y |-> y, m |-> m, d |-> d]]

\* d1 < d2 in calendar order.
DateLess(d1, d2) ==
    \/ d1.y < d2.y
    \/ d1.y = d2.y /\ d1.m < d2.m
    \/ d1.y = d2.y /\ d1.m = d2.m /\ d1.d < d2.d

\* ------------------------------------------------------------------------
\* Decimal numbers: float(), and the column type DECIMAL(10,2)
\* ------------------------------------------------------------------------

\* Outcome of a conversion: res is "ok" or the exception class raised.
Conv(res, v) == [res |-> res, v |-> v]

\* Position of the first "." in s, 0 when there is none.
DotPos(s) ==
    IF \E i \in 1..Len(s) : s[i] = "."
    THEN CHOOSE i \in 1..Len(s) : s[i] = "." /\ \A j \in 1..(i - 1) : s[j] # "."
    ELSE 0

\* The thousandths the fraction digits s[a..b] stand for (b - a + 1 <= 3).
FracVal(s, a, b) ==
    LET n == b - a + 1 IN
    IF n <= 0 THEN 0
    ELSE IF n = 1 THEN 100 * DigitsVal(s, a, b)
    ELSE IF n = 2 THEN 10 * DigitsVal(s, a, b)
    ELSE DigitsVal(s, a, b)

\* float(s) of a str: [sign] digits [. digits] | [sign] . digits; anything
\* else raises ValueError.  Exact for the strings of the model: no white
\* space, exponent, underscore, "inf" or "nan", at most three fraction digits.
float_str(s) ==
    LET signed == Len(s) >= 1 /\ s[1] \in {"+", "-"}
        a      == IF signed THEN 2 ELSE 1
        n      == Len(s)
        dot    == DotPos(s)
        ie     == IF dot = 0 THEN n ELSE dot - 1
        fs     == IF dot = 0 THEN n + 1 ELSE dot + 1
        wellformed ==
            /\ a <= n
            /\ AllDigits(s, a, ie)
            /\ AllDigits(s, fs, n)
            /\ (ie - a + 1) + (n - fs + 1) >= 1
            /\ n - fs + 1 <= 3
        w == DigitsVal(s, a, ie)
        f == FracVal(s, fs, n)
    IN  IF ~wellformed THEN Conv("ValueError", DecZero)
        ELSE Conv("ok", Dec(signed /\ s[1] = "-" /\ (w # 0 \/ f # 0), w, f))

\* float(x): a number keeps its value, a str is parsed, None raises TypeError.
float(x) ==
    CASE x.t \in {"int", "float"} -> Conv("ok", x.v)
      [] x.t = "str"  -> float_str(x.s)
      [] x.t = "none" -> Conv("TypeError", DecZero)

\* DECIMAL(10,2) holds |v| < 10^8 after rounding.
NumericWholeLimit == 100000000

\* A faulty variant of numeric_10_2: the digits past the second place are cut
\* off, where the column rounds.
numeric_10_2_truncating(v) ==
    IF v.w >= NumericWholeLimit THEN Conv("DataError", DecZero)
    ELSE Conv("ok", Dec(v.neg /\ (v.w # 0 \/ v.f \div 10 # 0), v.w, 10 * (v.f \div 10)))

\* Assignment of a number to the column amount DECIMAL(10,2): rounded to two
\* places, half away from zero; "numeric field overflow" (a DataError) when
\* the rounded value needs more than eight digits before the point.
numeric_10_2(v) ==
    LET c  == (v.f + 5) \div 10
        w2 == IF c = 100 THEN v.w + 1 ELSE v.w
        c2 == IF c = 100 THEN 0 ELSE c
    IN  IF w2 >= NumericWholeLimit THEN Conv("DataError", DecZero)
        ELSE Conv("ok", Dec(v.neg /\ (w2 # 0 \/ c2 # 0), w2, 10 * c2))

\* A sum of amounts kept as whole units and cents, both signed.
Money(w, c) == [w |-> w, c |-> c]

\* The decimal number a signed (whole, cents) pair stands for.
MoneyToDec(m) ==
    LET w1 == m.w + (m.c \div 100)
        c1 == m.c % 100
    IN  IF w1 >= 0 THEN Dec(FALSE, w1, 10 * c1)
        ELSE IF c1 = 0 THEN Dec(TRUE, -w1, 0)
        ELSE Dec(TRUE, -w1 - 1, 10 * (100 - c1))

\* A stored amount (two places) as a signed (whole, cents) pair.
DecToMoney(a) ==
    IF a.neg THEN Money(-a.w, -(a.f \div 10)) ELSE Money(a.w, a.f \div 10)

\* ------------------------------------------------------------------------
\* SQL values
\* ------------------------------------------------------------------------

\* A nullable column value: SQL NULL, or a value.
Null(d) == [null |-> TRUE, val |-> d]

Val(x) == [null |-> FALSE, val |-> x]

\* SQL "a = b": true only of two equal values, never of NULL.
SqlEq(a, b) == ~a.null /\ ~b.null /\ a.val = b.val

\* The outcome of a call: a returned value or a raised exception.
Return(v) == [kind |-> "return", exc |-> "", val |-> v]

Raise(e) == [kind |-> "raise", exc |-> e, val |-> FALSE]

\* ------------------------------------------------------------------------
\* The store: table transactions and the connection (src/database.py)
\* ------------------------------------------------------------------------

VARIABLES
    transactions,   \* the committed rows of table transactions
    seq,            \* the next value of the SERIAL sequence of transactions.id
    txn,            \* the connection's transaction: "idle" or "aborted"
    call,           \* the last call made: its operation and arguments
    ret,            \* what the last call returned or raised
    retries,        \* the last call's retry loop: the runs of its statement
                    \* block and the cause chained to the exception it raised
    user_partnerships,  \* the committed rows of table user_partnerships
    saved_filters,      \* the committed rows of table saved_filters
    shared_filters,     \* the committed rows of table shared_filters
    serial,         \* the next values of the SERIAL sequences of these tables
    chat,           \* a session's chat turn: the table process_chat_message
                    \* was given and the action it handed back
    requests        \* each session's send_partnership_request in progress:
                    \* past its SELECTs and before its INSERT, or none

vars == <<transactions, seq, txn, call, ret, retries,
          user_partnerships, saved_filters, shared_filters, serial, chat,
          requests>>

\* VARCHAR(50) of the column type.
TypeMaxLen == 50

\* A row of transactions.  description and user_id are nullable.  created_at
\* is CURRENT_TIMESTAMP of the inserting transaction; on one connection every
\* INSERT is committed before the next begins, so the timestamps are ordered
\* like the sequence values, which stand for them.
Row(id, date, type, description, amount, user_id, created_at) ==
    [id |-> id, date |-> date, type |-> type, description |-> description,
     amount |-> amount, user_id |-> user_id, created_at |-> created_at]

NoUser == Null(0)

\* The store as one value, and the outcome of an operation on it.
Store(tx, sq, tn) == [tx |-> tx, seq |-> sq, txn |-> tn]

Out(db, r) == [tx |-> db.tx, seq |-> db.seq, txn |-> db.txn, ret |-> r]

\* A statement failed inside the transaction: psycopg2 raises, nothing is
\* written, and no rollback follows, so the transaction stays aborted.
Failed(db, e) == Out(Store(db.tx, db.seq, "aborted"), Raise(e))

\* ensure_connection: "SELECT 1" on the connection.  In an aborted
\* transaction it raises InFailedSqlTransaction (an InternalError), which is
\* neither OperationalError nor InterfaceError and so is not handled.
ensure_connection(db) == db.txn # "aborted"

\* ORDER BY date DESC, created_at DESC.
OrderedBefore(r, q) ==
    \/ DateLess(q.date, r.date)
    \/ r.date = q.date /\ r.created_at > q.created_at

RECURSIVE OrderBy(_)
OrderBy(S) ==
    IF S = {} THEN <<>>
    ELSE LET first == CHOOSE r \in S : \A q \in S \ {r} : OrderedBefore(r, q)
         IN  <<first>> \o OrderBy(S \ {first})

\* SELECT id, date, type, description, amount: one dict per row.
Columns(r) ==
    [id |-> r.id, date |-> r.date, type |-> r.type,
     description |-> r.description, amount |-> r.amount]

\* A faulty variant of Database.add_transaction: the INSERT is not committed,
\* the id it returned is handed back and the row is lost.
Database_add_transaction_uncommitted(db, date, type_trans, description, amount, user_id) ==
    IF ~ensure_connection(db) THEN Out(db, Raise("InternalError"))
    ELSE IF numeric_10_2(amount).res # "ok" \/ Len(type_trans) > TypeMaxLen
         THEN Failed(db, "DataError")
    ELSE Out(Store(db.tx, db.seq + 1, "idle"), Return(db.seq))

\* Database.add_transaction(date, type_trans, description, amount, user_id).
\* date is a date, type_trans a str, amount a number; description and user_id
\* are nullable.  (An INSERT that fails takes no id in the model; whether it
\* takes one in the store changes no more than the gaps between ids.)
Database_add_transaction(db, date, type_trans, description, amount, user_id) ==
    IF ~ensure_connection(db) THEN Out(db, Raise("InternalError"))
    ELSE LET a == numeric_10_2(amount) IN
      IF a.res # "ok" \/ Len(type_trans) > TypeMaxLen THEN Failed(db, "DataError")
      ELSE LET row == Row(db.seq, date, type_trans, description, a.v, user_id, db.seq)
           IN  Out(Store(db.tx \cup {row}, db.seq + 1, "idle"), Return(db.seq))

\* The rows get_transactions selects.
SelectTransactions(db, user_id) ==
    IF user_id.null THEN db.tx ELSE {r \in db.tx : SqlEq(r.user_id, user_id)}

\* Database.get_transactions(user_id=None).
Database_get_transactions(db, user_id) ==
    IF ~ensure_connection(db) THEN Out(db, Raise("InternalError"))
    ELSE LET rows == OrderBy(SelectTransactions(db, user_id))
         IN  Out(db, Return([i \in 1..Len(rows) |-> Columns(rows[i])]))

\* SUM(CASE WHEN ... THEN amount ELSE 0 END) over a set of rows, for the two
\* CASE conditions of get_balance.
RECURSIVE SumCase(_, _)
SumCase(S, types) ==
    IF S = {} THEN Money(0, 0)
    ELSE LET r    == CHOOSE x \in S : TRUE
             rest == SumCase(S \ {r}, types)
             m    == IF r.type \in types THEN DecToMoney(r.amount) ELSE Money(0, 0)
         IN  Money(rest.w + m.w, rest.c + m.c)

Income == <<"i", "n", "c", "o", "m", "e">>

Expense == <<"e", "x", "p", "e", "n", "s", "e">>

Subscription == <<"s", "u", "b", "s", "c", "r", "i", "p", "t", "i", "o", "n">>

\* The value get_balance's SELECT computes over the rows it reads:
\* COALESCE(SUM(income), 0) - COALESCE(SUM(expense, subscription), 0).
BalanceOf(S) ==
    LET plus  == SumCase(S, {Income})
        minus == SumCase(S, {Expense, Subscription})
    IN  MoneyToDec(Money(plus.w - minus.w, plus.c - minus.c))

\* Database.get_balance(user_id=None).
Database_get_balance(db, user_id) ==
    IF ~ensure_connection(db) THEN Out(db, Raise("InternalError"))
    ELSE Out(db, Return(BalanceOf(SelectTransactions(db, user_id))))

\* Database.delete_transaction(transaction_id): DELETE ... WHERE id = %s.
Database_delete_transaction(db, transaction_id) ==
    IF ~ensure_connection(db) THEN Out(db, Raise("InternalError"))
    ELSE LET hit == {r \in db.tx : r.id = transaction_id}
         IN  Out(Store(db.tx \ hit, db.seq, "idle"), Return(hit # {}))

\* The columns of transactions an UPDATE of the model may name.  (id and
\* created_at are columns too; no call of the model names them.)
ColumnNames == {"date", "type", "amount", "description", "user_id"}

\* The value the store assigns to column field from the statement parameter
\* x.  res is "ok", "null" (NULL, which date, type and amount reject when a
\* row is written), or the class of the error the statement raises:
\* ProgrammingError for an undefined column or a number assigned to a date,
\* DataError for text that is no date or no number and for an overflow.
\* PostgreSQL reads the date and number strings of the model as strptime
\* and float do.
Assign(field, x) ==
    CASE field \notin ColumnNames -> Conv("ProgrammingError", FALSE)
      [] field = "date" ->
           ( CASE x.t = "date" -> Conv("ok", x.d)
               [] x.t = "str"  ->
                    IF strptime(x.s).ok THEN Conv("ok", strptime(x.s).date)
                    ELSE Conv("DataError", NoDate)
               [] x.t = "none" -> Conv("null", NoDate)
               [] x.t \in {"int", "float"} -> Conv("ProgrammingError", NoDate) )
      [] field = "type" ->
           ( CASE x.t = "str"  ->
                    IF Len(x.s) > TypeMaxLen THEN Conv("DataError", NoStr)
                    ELSE Conv("ok", x.s)
               [] x.t = "none" -> Conv("null", NoStr) )
      [] field = "amount" ->
           ( CASE x.t \in {"int", "float"} -> numeric_10_2(x.v)
               [] x.t = "str"  ->
                    IF float_str(x.s).res = "ok" THEN numeric_10_2(float_str(x.s).v)
                    ELSE Conv("DataError", DecZero)
               [] x.t = "none" -> Conv("null", DecZero) )
      [] field = "description" ->
           ( CASE x.t = "str"  -> Conv("ok", Val(x.s))
               [] x.t = "none" -> Conv("ok", Null(NoStr)) )
      [] field = "user_id" ->
           ( CASE x.t = "int" /\ ~x.v.neg -> Conv("ok", Val(x.v.w))
               [] x.t = "none" -> Conv("ok", NoUser) )

\* The row r after SET c = sets[c] for every column c of sets.
SetColumns(r, sets) ==
    [c \in DOMAIN r |-> IF c \in DOMAIN sets THEN sets[c].v ELSE r[c]]

\* UPDATE transactions SET <updates> WHERE <the rows hit>; commit.  updates
\* maps column names to statement parameters.  The outcome's value is the
\* statement's row count.
Update(db, hit, updates) ==
    LET sets == [c \in DOMAIN updates |-> Assign(c, updates[c])]
        res  == {sets[c].res : c \in DOMAIN sets}
    IN  IF DOMAIN updates = {} \/ "ProgrammingError" \in res
        THEN Failed(db, "ProgrammingError")
        ELSE IF "DataError" \in res THEN Failed(db, "DataError")
        ELSE IF "null" \in res /\ hit # {} THEN Failed(db, "IntegrityError")
        ELSE Out(Store((db.tx \ hit) \cup {SetColumns(r, sets) : r \in hit},
                       db.seq, "idle"),
                 Return(Cardinality(hit)))

\* Database.update_transaction(transaction_id, field, value):
\* UPDATE transactions SET {field} = %s WHERE id = %s.
Database_update_transaction(db, transaction_id, field, value) ==
    IF ~ensure_connection(db) THEN Out(db, Raise("InternalError"))
    ELSE LET hit == {r \in db.tx : r.id = transaction_id}
             o   == Update(db, hit, [c \in {field} |-> value])
         IN  IF o.ret.kind = "raise" THEN o
             ELSE Out(o, Return(o.ret.val > 0))

\* ------------------------------------------------------------------------
\* The transaction manager (src/transaction_manager.py)
\* ------------------------------------------------------------------------
\* A dict of Python is a function from its keys; a raised KeyError or
\* ValueError that a handler re-raises as ValueError is "ValueError".

\* ['expense', 'subscription', 'income']
TransactionTypes == {Expense, Subscription, Income}

\* type_trans not in ['expense', 'subscription', 'income'] raises.
valid_type(type_trans) == type_trans \in TransactionTypes

\* transaction_data['type'].lower()
normalize_type(s) == str_lower(s)

\* TransactionManager.add_transaction(transaction_data).
add_transaction(db, td) ==
    LET K == DOMAIN td IN
    IF "date" \notin K THEN Out(db, Raise("ValueError"))
    ELSE IF td.date.t # "str" THEN Out(db, Raise("TypeError"))
    ELSE IF ~strptime(td.date.s).ok THEN Out(db, Raise("ValueError"))
    ELSE IF "amount" \notin K THEN Out(db, Raise("ValueError"))
    ELSE IF float(td.amount).res # "ok" THEN Out(db, Raise(float(td.amount).res))
    ELSE IF "type" \notin K THEN Out(db, Raise("ValueError"))
    ELSE IF td.type.t # "str" THEN Out(db, Raise("AttributeError"))
    ELSE IF "description" \notin K THEN Out(db, Raise("ValueError"))
    ELSE IF ~valid_type(normalize_type(td.type.s)) THEN Out(db, Raise("ValueError"))
    ELSE Database_add_transaction(db, strptime(td.date.s).date,
                                  normalize_type(td.type.s),
                                  Assign("description", td.description).v,
                                  float(td.amount).v, NoUser)

\* TransactionManager.get_transactions_df(): the rows of get_transactions()
\* in their order; the row number of a row is its position, from 1.  (The
\* dates of the model are dates pandas.to_datetime can hold.)
get_transactions_df(db) == Database_get_transactions(db, NoUser)

\* isinstance(row_number, int) and row_number >= 1
valid_row_number(row_number) ==
    row_number.t = "int" /\ ~row_number.v.neg /\ row_number.v.w >= 1

\* WHERE date = %s AND description = %s AND amount = %s, with the values of
\* the row transaction of the displayed table.
SameDateDescriptionAmount(db, transaction) ==
    {r \in db.tx : /\ r.date = transaction.date
                   /\ SqlEq(r.description, transaction.description)
                   /\ r.amount = transaction.amount}

\* TransactionManager.delete_transaction_by_row(row_number).
delete_transaction_by_row(db, row_number) ==
    IF ~valid_row_number(row_number) THEN Out(db, Raise("ValueError"))
    ELSE LET df == get_transactions_df(db) IN
      IF df.ret.kind = "raise" THEN df
      ELSE IF row_number.v.w > Len(df.ret.val) THEN Out(db, Raise("ValueError"))
      ELSE LET hit == SameDateDescriptionAmount(db, df.ret.val[row_number.v.w])
               o   == Store(db.tx \ hit, db.seq, "idle")
           IN  IF hit = {} THEN Out(o, Raise("ValueError"))
               ELSE Out(o, Return(TRUE))

\* The class of the exception the "Validate updates" block of
\* update_transaction_by_row raises for updates, or "ok".
validate_updates(updates) ==
    LET K == DOMAIN updates IN
    IF "date" \in K /\ updates.date.t # "str" THEN "TypeError"
    ELSE IF "date" \in K /\ ~strptime(updates.date.s).ok THEN "ValueError"
    ELSE IF "type" \in K /\ ~(updates.type.t = "str" /\ valid_type(updates.type.s))
         THEN "ValueError"
    ELSE IF "amount" \in K /\ float(updates.amount).res # "ok"
         THEN float(updates.amount).res
    ELSE "ok"

\* updates after validation: the date parsed, the amount a float.
converted_updates(updates) ==
    [k \in DOMAIN updates |->
        IF k = "date" THEN PyDate(strptime(updates[k].s).date)
        ELSE IF k = "amount" THEN PyFloat(float(updates[k]).v)
        ELSE updates[k]]

\* TransactionManager.update_transaction_by_row(row_number, updates).
update_transaction_by_row(db, row_number, updates) ==
    IF ~valid_row_number(row_number) THEN Out(db, Raise("ValueError"))
    ELSE LET df == get_transactions_df(db) IN
      IF df.ret.kind = "raise" THEN df
      ELSE IF row_number.v.w > Len(df.ret.val) THEN Out(db, Raise("ValueError"))
      ELSE IF validate_updates(updates) # "ok"
           THEN Out(db, Raise(validate_updates(updates)))
      ELSE LET hit == SameDateDescriptionAmount(db, df.ret.val[row_number.v.w])
               o   == Update(db, hit, converted_updates(updates))
           IN  IF o.ret.kind = "raise" THEN o
               ELSE IF o.ret.val = 0 THEN Out(o, Raise("ValueError"))
               ELSE Out(o, Return(TRUE))

CmdAdd == <<"a", "d", "d">>

CmdDelete == <<"d", "e", "l", "e", "t", "e">>

CmdUpdate == <<"u", "p", "d", "a", "t", "e">>

RequiredFields == {"date", "type", "description", "amount"}

\* dict.get(key, default)
Get(d, key, default) == IF key \in DOMAIN d THEN d[key] ELSE default

\* TransactionManager.process_command(command_data).
process_command(db, command_data) ==
    LET c == Get(command_data, "command", PyStr(NoStr)) IN
    IF c.t # "str" THEN Out(db, Raise("AttributeError"))
    ELSE LET command == str_lower(c.s) IN
      IF command = CmdAdd THEN
        LET transaction == Get(command_data, "transaction", <<>>) IN
        IF ~(RequiredFields \subseteq DOMAIN transaction)
        THEN Out(db, Raise("ValueError"))
        ELSE add_transaction(db, transaction)
      ELSE IF command = CmdDelete THEN
        LET row_number == Get(command_data, "row_number", PyNone) IN
        IF ~valid_row_number(row_number) THEN Out(db, Raise("ValueError"))
        ELSE delete_transaction_by_row(db, row_number)
      ELSE IF command = CmdUpdate THEN
        LET row_number == Get(command_data, "row_number", PyNone)
            updates    == Get(command_data, "updates", <<>>)
        IN  IF ~valid_row_number(row_number) THEN Out(db, Raise("ValueError"))
            ELSE IF DOMAIN updates = {} THEN Out(db, Raise("ValueError"))
            ELSE update_transaction_by_row(db, row_number, updates)
      ELSE Out(db, Raise("ValueError"))

\* TransactionManager.delete_transactions(ids): every id is attempted on its
\* own through Database.delete_transaction, and the outcome of each attempt
\* is collected: success, or a failure with its error.
RECURSIVE delete_transactions_from(_, _, _)
delete_transactions_from(db, ids, results) ==
    IF ids = <<>> THEN Out(db, Return(results))
    ELSE LET o == Database_delete_transaction(db, Head(ids))
             r == [id      |-> Head(ids),
                   success |-> o.ret.kind = "return" /\ o.ret.val,
                   error   |-> IF o.ret.kind = "raise" THEN o.ret.exc
                               ELSE IF o.ret.val THEN "" ELSE "NotFound"]
         IN  delete_transactions_from(Store(o.tx, o.seq, o.txn), Tail(ids),
                                      Append(results, r))

delete_transactions(db, ids) == delete_transactions_from(db, ids, <<>>)

\* strftime('%Y-%m') of a date: four digits of the year, "-", two of the
\* month.
strftime_Ym(d) ==
    << Digits[((d.y \div 1000) % 10) + 1], Digits[((d.y \div 100) % 10) + 1],
       Digits[((d.y \div 10) % 10) + 1], Digits[(d.y % 10) + 1], "-",
       Digits[(d.m \div 10) + 1], Digits[(d.m % 10) + 1] >>

\* df[...]['amount'].sum() over the rows S of the frame: the amounts as
\* they are stored, whatever the type of their rows.
AmountSum(S) == MoneyToDec(SumCase(S, {r.type : r \in S}))

\* TransactionManager.get_summary_stats().
get_summary_stats(db) ==
    LET df == get_transactions_df(db) IN
    IF df.ret.kind = "raise" THEN df
    ELSE LET S == {df.ret.val[i] : i \in 1..Len(df.ret.val)} IN
      IF S = {}
      THEN Out(db, Return([total_expenses |-> DecZero,
                           total_subscriptions |-> DecZero,
                           current_balance |-> DecZero,
                           monthly_breakdown |-> <<>>]))
      ELSE LET balance == Database_get_balance(db, NoUser)
               months  == {strftime_Ym(r.date) : r \in S}
           IN  IF balance.ret.kind = "raise" THEN balance
               ELSE Out(db, Return(
                      [total_expenses |-> AmountSum({r \in S : r.type = Expense}),
                       total_subscriptions |->
                           AmountSum({r \in S : r.type = Subscription}),
                       current_balance |-> balance.ret.val,
                       monthly_breakdown |->
                           [k \in months |->
                               AmountSum({r \in S : strftime_Ym(r.date) = k})]]))

\* ------------------------------------------------------------------------
\* The chat (src/gpt_processor.py, process_chat_message)
\* ------------------------------------------------------------------------
\* The reply of the model is a JSON object after json.loads: a dict, here a
\* record, whose values are None, numbers, strs and dicts.  The text of a
\* message is the sequence of its parts.

\* x is a value that is no dict.
IsPy(x) == "t" \in DOMAIN x

\* bool(x) of None, a number or a str.
Truthy(x) ==
    CASE x.t = "none" -> FALSE
      [] x.t = "str"  -> x.s # <<>>
      [] x.t \in {"int", "float"} -> x.v.w # 0 \/ x.v.f # 0
      [] OTHER -> TRUE

\* A chat turn: the table the chat was given and the action it handed back.
Chat(df, action) == [df |-> df, action |-> action]

NoChat == Chat(<<>>, PyNone)

\* result['action'] = None; result['message'] += text
Dropped(result, text) ==
    IF "message" \notin DOMAIN result THEN Raise("KeyError")
    ELSE Return([result EXCEPT !.action = PyNone, !.message = Append(@, text)])

\* The part of GPTProcessor.process_chat_message(message, transactions_df)
\* after json.loads: result is the reply, df the rows of transactions_df.
process_chat_message(result, df) ==
    LET action == Get(result, "action", PyNone) IN
    IF IsPy(action)
    THEN IF Truthy(action) THEN Raise("AttributeError") ELSE Return(result)
    ELSE IF DOMAIN action = {} THEN Return(result)
    ELSE LET command == Get(action, "command", PyNone) IN
      IF command \in {PyStr(CmdUpdate), PyStr(CmdDelete)}
      THEN LET row_number == Get(action, "row_number", PyNone) IN
           IF ~Truthy(row_number) \/ row_number.t # "int" \/ row_number.v.neg
           THEN Dropped(result, "I couldn't determine which transaction to modify.")
           ELSE IF Len(df) = 0 \/ row_number.v.w > Len(df)
           THEN Dropped(result, "Row number doesn't exist in the transaction table.")
           ELSE Return(result)
      ELSE IF command = PyStr(CmdAdd)
      THEN LET transaction == Get(action, "transaction", <<>>) IN
           IF IsPy(transaction) THEN Raise("TypeError")    \* "in" of None
           ELSE IF ~(RequiredFields \subseteq DOMAIN transaction)
           THEN Dropped(result, "I couldn't get all the required information.")
           ELSE Return(result)
      ELSE Return(result)

\* ------------------------------------------------------------------------
\* Filters of transactions (src/database.py, filter_transactions)
\* ------------------------------------------------------------------------

\* str.split(','): the pieces of s between its commas.
RECURSIVE str_split(_)
str_split(s) ==
    IF \A i \in 1..Len(s) : s[i] # "," THEN <<s>>
    ELSE LET i == CHOOSE k \in 1..Len(s) :
                      s[k] = "," /\ \A j \in 1..(k - 1) : s[j] # ","
         IN  <<SubSeq(s, 1, i - 1)>> \o str_split(SubSeq(s, i + 1, Len(s)))

\* str.strip(): s without the white space at its two ends.
str_strip(s) ==
    LET keep == {i \in 1..Len(s) : s[i] \notin {" ", "\t", "\n", "\r"}} IN
    IF keep = {} THEN <<>>
    ELSE SubSeq(s, CHOOSE i \in keep : \A j \in keep : i <= j,
                   CHOOSE i \in keep : \A j \in keep : i >= j)

\* [term.strip() for term in value.split(',')]
search_terms(value) ==
    LET pieces == str_split(value) IN [i \in 1..Len(pieces) |-> str_strip(pieces[i])]

\* f"%{term}%"
like_param(term) == <<"%">> \o term \o <<"%">>

\* s LIKE p of PostgreSQL: % stands for any text, _ for any one character,
\* and a backslash takes the character after it literally.  (A pattern that
\* ends in a lone backslash is an error; like_param builds none.)
RECURSIVE Like(_, _)
Like(s, p) ==
    IF p = <<>> THEN s = <<>>
    ELSE IF Head(p) = "%"
         THEN Like(s, Tail(p)) \/ (s # <<>> /\ Like(Tail(s), p))
    ELSE IF Head(p) = "\\" /\ Len(p) >= 2
         THEN s # <<>> /\ Head(s) = p[2] /\ Like(Tail(s), Tail(Tail(p)))
    ELSE s # <<>> /\ (Head(p) = "_" \/ Head(p) = Head(s)) /\ Like(Tail(s), Tail(p))

\* LOWER(column) LIKE LOWER(%s) of a nullable column value: NULL matches
\* nothing.
LowerLike(x, param) == ~x.null /\ Like(str_lower(x.val), str_lower(param))

\* Database.filter_transactions(column, value, user_id=None, owner_id=None).
\* column is a str, value a Python value.  Whatever the block raises that is
\* no connectivity error is caught by "except Exception" and [] is returned:
\* the error of ensure_connection on an aborted transaction, the TypeError of
\* float(None), the AttributeError of None.split.
Database_filter_transactions(db, column, value, user_id, owner_id) ==
    IF ~ensure_connection(db) THEN Out(db, Return(<<>>))
    ELSE LET owned == IF ~owner_id.null
                      THEN {r \in db.tx : SqlEq(r.user_id, owner_id)}
                      ELSE IF ~user_id.null
                      THEN {r \in db.tx : SqlEq(r.user_id, user_id)}
                      ELSE db.tx
             terms == search_terms(value.s)
             rows  == CASE column = "amount" ->
                             {r \in owned : r.amount = float(value).v}
                        [] column = "type" ->
                             {r \in owned : \E i \in 1..Len(terms) :
                                  LowerLike(Val(r.type), like_param(terms[i]))}
                        [] column = "description" ->
                             {r \in owned : \E i \in 1..Len(terms) :
                                  LowerLike(r.description, like_param(terms[i]))}
                        [] OTHER -> owned
             list  == OrderBy(rows)
         IN  IF column = "amount" /\ float(value).res # "ok"
             THEN Out(db, Return(<<>>))
             ELSE IF column \in {"type", "description"} /\ value.t # "str"
             THEN Out(db, Return(<<>>))
             ELSE Out(db, Return([i \in 1..Len(list) |-> Columns(list[i])]))

\* ------------------------------------------------------------------------
\* Deletion by scope (src/main.py, src/database.py)
\* ------------------------------------------------------------------------

\* ORDER BY created_at DESC, id DESC
RECURSIVE OrderLatest(_)
OrderLatest(S) ==
    IF S = {} THEN <<>>
    ELSE LET first == CHOOSE r \in S : \A q \in S \ {r} :
                          \/ r.created_at > q.created_at
                          \/ r.created_at = q.created_at /\ r.id > q.id
         IN  <<first>> \o OrderLatest(S \ {first})

\* Database.get_latest_transaction_ids(limit=None), limit None or an int.
\* "if limit:" adds the LIMIT clause for a limit that is truthy only; the
\* store refuses a negative LIMIT.
Database_get_latest_transaction_ids(db, limit) ==
    IF ~ensure_connection(db) THEN Out(db, Raise("InternalError"))
    ELSE LET rows == OrderLatest(db.tx)
             ids  == [i \in 1..Len(rows) |-> rows[i].id]
         IN  IF ~Truthy(limit) THEN Out(db, Return(ids))
             ELSE IF limit.v.neg THEN Failed(db, "DataError")
             ELSE Out(db, Return(SubSeq(ids, 1, IF limit.v.w < Len(ids)
                                                THEN limit.v.w ELSE Len(ids))))

\* s[lo:hi] of a list, lo and hi None or an int: a negative index counts
\* from the end, and an index past either end is that end.
Slice(s, lo, hi) ==
    LET at(x, none) ==
            IF x.t = "none" THEN none
            ELSE IF x.v.neg
            THEN (IF x.v.w < Len(s) THEN Len(s) - x.v.w ELSE 0)
            ELSE (IF x.v.w < Len(s) THEN x.v.w ELSE Len(s))
    IN  SubSeq(s, at(lo, 0) + 1, at(hi, Len(s)))

\* ids_to_delete of the text input (src/main.py): the ids a deletion of the
\* type deletion_type selects, n being result.get("n", 1) and
\* transaction_ids result.get("transaction_ids", []).
ids_to_delete(db, deletion_type, n, transaction_ids) ==
    LET all == Database_get_latest_transaction_ids(db, PyNone)
        kept(id) == \A i \in 1..Len(transaction_ids) : transaction_ids[i] # id
    IN  IF deletion_type = "specific_ids" THEN Out(db, Return(transaction_ids))
        ELSE IF deletion_type = "last_n"
        THEN Database_get_latest_transaction_ids(db, n)
        ELSE IF all.ret.kind = "raise" THEN all
        ELSE IF deletion_type = "first_n"
        THEN Out(db, Return(Slice([i \in 1..Len(all.ret.val) |->
                                      all.ret.val[Len(all.ret.val) + 1 - i]],
                                  PyNone, n)))
        ELSE IF deletion_type = "all" THEN all
        ELSE IF deletion_type = "all_except_last_n"
        THEN Out(db, Return(Slice(all.ret.val, n, PyNone)))
        ELSE IF deletion_type = "all_except_ids"
        THEN Out(db, Return(SelectSeq(all.ret.val, kept)))
        ELSE Out(db, Return(<<>>))

\* The deletion of the text input: the ids are selected and, when there are
\* any, handed to delete_transactions; an exception ends the deletion with
\* its message.
deletion(db, deletion_type, n, transaction_ids) ==
    LET selected == ids_to_delete(db, deletion_type, n, transaction_ids) IN
    IF selected.ret.kind = "raise" \/ Len(selected.ret.val) = 0 THEN selected
    ELSE delete_transactions(Store(selected.tx, selected.seq, selected.txn),
                             selected.ret.val)

\* ------------------------------------------------------------------------
\* Connectivity failures and the retry loop (src/database.py)
\* ------------------------------------------------------------------------
\* Every operation of Database is the same loop around its statement block:
\*     for attempt in range(max_retries):
\*         try: ensure_connection(); <block>
\*         except (OperationalError, InterfaceError) as e:
\*             if attempt == max_retries - 1: raise Exception(...) from e
\*             self.connect()
\* The operations above are the block on a network that does not fail.  Here
\* the network fails as a schedule says, one fault per attempt.

max_retries == 3

\* What fails in one attempt.  probe: "SELECT 1" of ensure_connection
\* succeeds ("ok"), or fails and connect() opens a new connection ("lost"),
\* or fails and the three attempts of connect() fail as well ("down").
\* block: the statement block meets no connectivity error ("ok"), its
\* statement raises one before anything is written ("execute"), or its
\* commit raises one after the server has committed ("commit").  connect:
\* whether connect() in the handler opens a new connection.
Faults ==
    { f \in [probe : {"ok", "lost", "down"}, block : {"ok", "execute", "commit"},
             connect : BOOLEAN] :
        \* faults that differ in what is never reached are one fault
        /\ f.probe = "down" => f.block = "ok"
        /\ f.block = "ok" => f.connect }

Schedules == [1..max_retries -> Faults]

\* The state of a call in its loop, and a call whose loop is not followed.
Loop(db, runs, lost, done, r, cause) ==
    [tx |-> db.tx, seq |-> db.seq, txn |-> db.txn, runs |-> runs, lost |-> lost,
     done |-> done, ret |-> r, cause |-> cause]

Retries(runs, lost, cause) == [runs |-> runs, lost |-> lost, cause |-> cause]

NoRetries == Retries(0, FALSE, "")

\* A new connection: its transaction is idle whatever the old one's was.
connect(db) == Store(db.tx, db.seq, "idle")

\* The statement block of the call c on a network that does not fail.
StatementBlock(db, c) ==
    CASE c.op = "Database.add_transaction" ->
           Database_add_transaction(db, c.date, c.type, c.description, c.amount,
                                    c.user_id)
      [] c.op = "Database.filter_transactions" ->
           Database_filter_transactions(db, c.column, c.value, NoUser, c.owner_id)
      [] c.op = "Database.get_transactions" ->
           Database_get_transactions(db, c.user_id)

\* The operations whose block ends with a commit, and the one that catches
\* Exception next to the connectivity errors.
Commits(c) == c.op = "Database.add_transaction"

CatchesException(c) == c.op = "Database.filter_transactions"

\* The block of the call c comes to cur.execute: a filter does not when
\* float() of its value raises or its value has no split().
Executes(c) ==
    c.op = "Database.filter_transactions" =>
        /\ c.column = "amount" => float(c.value).res = "ok"
        /\ c.column \in {"type", "description"} => c.value.t = "str"

\* The handler of a connectivity error raised in attempt number attempt (from
\* 1) of the call c: the last attempt raises Exception from the error, the
\* others reconnect, and connect() raises Exception from its own error when
\* it cannot.
except_connectivity(db, c, f, attempt, runs) ==
    IF attempt = max_retries \/ ~f.connect
    THEN Loop(db, runs, TRUE, TRUE, Raise("Exception"), "OperationalError")
    ELSE Loop(connect(db), runs, TRUE, FALSE, Raise("Exception"), "")

\* One attempt of the loop under the fault f.
Attempt(s, c, f, attempt) ==
    LET db0 == Store(s.tx, s.seq, s.txn) IN
    IF f.probe = "down"
    THEN \* connect() of ensure_connection raises Exception inside the try
         IF CatchesException(c)
         THEN Loop(db0, s.runs, TRUE, TRUE, Return(<<>>), "")
         ELSE Loop(db0, s.runs, TRUE, TRUE, Raise("Exception"), "OperationalError")
    ELSE LET db1  == IF f.probe = "lost" THEN connect(db0) ELSE db0
             o    == StatementBlock(db1, c)
             runs == IF ensure_connection(db1) THEN s.runs + 1 ELSE s.runs
         IN  IF ~ensure_connection(db1) \/ f.block = "ok" \/ ~Executes(c)
             THEN Loop(o, runs, FALSE, TRUE, o.ret, "")
             ELSE IF f.block = "execute"
             THEN except_connectivity(db1, c, f, attempt, runs)
             ELSE IF o.ret.kind = "raise" \/ ~Commits(c)
             THEN Loop(o, runs, FALSE, TRUE, o.ret, "")
             ELSE except_connectivity(o, c, f, attempt, runs)

\* The loop from attempt number attempt on; after the last attempt the
\* function ends: filter_transactions with "return []", the others without
\* a return statement.
RECURSIVE retry_loop(_, _, _, _)
retry_loop(s, c, schedule, attempt) ==
    IF s.done THEN s
    ELSE IF attempt > max_retries
    THEN Loop(s, s.runs, s.lost, TRUE,
              IF CatchesException(c) THEN Return(<<>>) ELSE Return(PyNone), "")
    ELSE retry_loop(Attempt(s, c, schedule[attempt], attempt), c, schedule,
                    attempt + 1)

\* The call c on the store db under a schedule of faults.
with_retries(db, c, schedule) ==
    retry_loop(Loop(db, 0, TRUE, FALSE, Return(PyNone), ""), c, schedule, 1)

\* ------------------------------------------------------------------------
\* Saved filters, partnerships and shared filters (src/database.py)
\* ------------------------------------------------------------------------
\* The tables users, user_partnerships and shared_filters are created
\* outside src/, and so is the column user_id of saved_filters; they have
\* the columns the statements name.  users is filled by Auth.register_user
\* and is the same in every state of the model.

\* VARCHAR(100) of saved_filters.name, VARCHAR(50) of filter_column.
NameMaxLen == 100

ColumnMaxLen == 50

\* alice, bob and carol
users ==
    { [id |-> 1, username |-> <<"a", "l", "i", "c", "e">>],
      [id |-> 2, username |-> <<"b", "o", "b">>],
      [id |-> 3, username |-> <<"c", "a", "r", "o", "l">>] }

\* UserPartnership.status is one of pending, accepted, rejected; the table
\* rejects a row with another status.
PartnershipStatus == {"pending", "accepted", "rejected"}

\* The tables as one value with the connection's transaction, and the
\* outcome of an operation on them.  serial holds the next id of each table.
Tables(p, f, s, sr, tn) ==
    [partnerships |-> p, filters |-> f, shares |-> s, serial |-> sr, txn |-> tn]

FirstSerials == [user_partnerships |-> 1, saved_filters |-> 1, shared_filters |-> 1]

Done(db, r) ==
    [partnerships |-> db.partnerships, filters |-> db.filters, shares |-> db.shares,
     serial |-> db.serial, txn |-> db.txn, ret |-> r]

\* A statement failed inside the transaction and nothing rolls it back.
Aborted(db, e) ==
    Done(Tables(db.partnerships, db.filters, db.shares, db.serial, "aborted"),
         Raise(e))

\* Database.save_filter(name, filter_column, filter_text, user_id=None).
\* name, filter_column and filter_text are NOT NULL.
Database_save_filter(db, name, filter_column, filter_text, user_id) ==
    IF ~ensure_connection(db) THEN Done(db, Raise("InternalError"))
    ELSE IF "none" \in {name.t, filter_column.t, filter_text.t}
         THEN Aborted(db, "IntegrityError")
    ELSE IF Len(name.s) > NameMaxLen \/ Len(filter_column.s) > ColumnMaxLen
         THEN Aborted(db, "DataError")
    ELSE LET id  == db.serial.saved_filters
             row == [id |-> id, name |-> name.s, filter_column |-> filter_column.s,
                     filter_text |-> filter_text.s, user_id |-> user_id]
         IN  Done(Tables(db.partnerships, db.filters \cup {row}, db.shares,
                         [db.serial EXCEPT !.saved_filters = id + 1], "idle"),
                  Return(id))

\* The place of a character in the order of the letters, 0 for another one.
LetterRank(c) ==
    IF \E i \in 1..Len(LowerCase) : LowerCase[i] = c
    THEN CHOOSE i \in 1..Len(LowerCase) : LowerCase[i] = c
    ELSE 0

\* a < b for two names of small letters.
RECURSIVE NameLess(_, _)
NameLess(a, b) ==
    IF b = <<>> THEN FALSE
    ELSE IF a = <<>> THEN TRUE
    ELSE IF Head(a) # Head(b) THEN LetterRank(Head(a)) < LetterRank(Head(b))
    ELSE NameLess(Tail(a), Tail(b))

\* ORDER BY name ASC; rows of one name come in the order of their ids.
RECURSIVE OrderByName(_)
OrderByName(S) ==
    IF S = {} THEN <<>>
    ELSE LET first == CHOOSE r \in S : \A q \in S \ {r} :
                          \/ NameLess(r.name, q.name)
                          \/ r.name = q.name /\ r.id < q.id
         IN  <<first>> \o OrderByName(S \ {first})

\* Database.get_saved_filters(user_id=None).
Database_get_saved_filters(db, user_id) ==
    IF ~ensure_connection(db) THEN Done(db, Raise("InternalError"))
    ELSE LET rows == IF user_id.null THEN db.filters
                     ELSE {f \in db.filters : SqlEq(f.user_id, user_id)}
             list == OrderByName(rows)
         IN  Done(db, Return([i \in 1..Len(list) |->
                 [id |-> list[i].id, name |-> list[i].name,
                  filter_column |-> list[i].filter_column,
                  filter_text |-> list[i].filter_text]]))

\* Database.delete_saved_filter(filter_id).
Database_delete_saved_filter(db, filter_id) ==
    IF ~ensure_connection(db) THEN Done(db, Raise("InternalError"))
    ELSE LET hit == {f \in db.filters : f.id = filter_id}
         IN  Done(Tables(db.partnerships, db.filters \ hit, db.shares, db.serial,
                         "idle"),
                  Return(hit # {}))

\* The rows of user_partnerships between the users a and b, either way.
Between(db, a, b) ==
    {p \in db.partnerships : \/ p.user_id = a /\ p.partner_id = b
                             \/ p.user_id = b /\ p.partner_id = a}

\* The pair (id, error) send_partnership_request returns; the error text
\* ends with the status it reports, when it reports one.
RequestResult(id, error, status) == [id |-> id, error |-> error, status |-> status]

\* INSERT INTO user_partnerships (user_id, partner_id, status) VALUES (%s,
\* %s, 'pending') RETURNING id, and the commit.
InsertPartnership(db, user_id, partner_id) ==
    IF ~ensure_connection(db) THEN Done(db, Raise("InternalError"))
    ELSE LET id  == db.serial.user_partnerships
             row == [id |-> id, user_id |-> user_id, partner_id |-> partner_id,
                     status |-> "pending"]
         IN  Done(Tables(db.partnerships \cup {row}, db.filters, db.shares,
                         [db.serial EXCEPT !.user_partnerships = id + 1], "idle"),
                  Return(RequestResult(Val(id), "", "")))

\* Database.send_partnership_request(user_id, partner_username).
Database_send_partnership_request(db, user_id, partner_username) ==
    IF ~ensure_connection(db) THEN Done(db, Raise("InternalError"))
    ELSE LET partner == {u \in users : u.username = partner_username} IN
      IF partner = {}
      THEN Done(db, Return(RequestResult(Null(0), "User not found", "")))
      ELSE LET partner_id == (CHOOSE u \in partner : TRUE).id
               existing   == Between(db, user_id, partner_id)
           IN  IF partner_id = user_id
               THEN Done(db, Return(RequestResult(Null(0),
                                                  "Cannot partner with yourself", "")))
               ELSE IF existing # {}
               THEN Done(db, Return(RequestResult(Null(0),
                        "Partnership already exists with status: ",
                        (CHOOSE p \in existing : TRUE).status)))
               ELSE InsertPartnership(db, user_id, partner_id)

\* The sessions that send requests at the same time, and a session's
\* request: none, or one past its SELECTs with the ids it will insert.
Sessions == {1, 2}

NoRequest == [pc |-> "none", user_id |-> 0, partner_id |-> 0]

\* ORDER BY id over rows of user_partnerships.
RECURSIVE OrderById(_)
OrderById(S) ==
    IF S = {} THEN <<>>
    ELSE LET first == CHOOSE r \in S : \A q \in S : r.id <= q.id
         IN  <<first>> \o OrderById(S \ {first})

\* Database.get_partners(user_id): one row for each accepted partnership of
\* the user, with the id and the username of the other user.  The statement
\* names no order; the rows are in the order of the table here.
Database_get_partners(db, user_id) ==
    IF ~ensure_connection(db) THEN Done(db, Raise("InternalError"))
    ELSE LET mine == OrderById(
                        {p \in db.partnerships :
                            /\ p.user_id = user_id \/ p.partner_id = user_id
                            /\ p.status = "accepted"
                            /\ \E u \in users : /\ u.id \in {p.partner_id, p.user_id}
                                                 /\ u.id # user_id})
             u(p) == CHOOSE x \in users :
                         x.id \in {p.partner_id, p.user_id} /\ x.id # user_id
         IN  Done(db, Return([i \in 1..Len(mine) |->
                                 [id |-> u(mine[i]).id,
                                  username |-> u(mine[i]).username]]))

\* Database.update_partnership_status(partnership_id, user_id, status):
\* UPDATE ... SET status = %s WHERE id = %s AND partner_id = %s.
Database_update_partnership_status(db, partnership_id, user_id, status) ==
    IF ~ensure_connection(db) THEN Done(db, Raise("InternalError"))
    ELSE LET hit == {p \in db.partnerships :
                        p.id = partnership_id /\ p.partner_id = user_id}
         IN  IF hit # {} /\ status \notin PartnershipStatus
             THEN Aborted(db, "IntegrityError")
             ELSE Done(Tables((db.partnerships \ hit)
                                 \cup {[p EXCEPT !.status = status] : p \in hit},
                              db.filters, db.shares, db.serial, "idle"),
                       Return(hit # {}))

\* The pair (success, error) share_filter returns.
ShareResult(success, error) == [success |-> success, error |-> error]

\* Database.share_filter(filter_id, owner_id, partner_id): INSERT ... ON
\* CONFLICT (filter_id, owner_id, shared_with_id) DO NOTHING.
Database_share_filter(db, filter_id, owner_id, partner_id) ==
    IF ~ensure_connection(db) THEN Done(db, Raise("InternalError"))
    ELSE IF ~\E p \in Between(db, owner_id, partner_id) : p.status = "accepted"
         THEN Done(db, Return(ShareResult(FALSE, "No active partnership found")))
    ELSE LET conflict == \E s \in db.shares : /\ s.filter_id = filter_id
                                              /\ s.owner_id = owner_id
                                              /\ s.shared_with_id = partner_id
             id  == db.serial.shared_filters
             row == [id |-> id, filter_id |-> filter_id, owner_id |-> owner_id,
                     shared_with_id |-> partner_id, created_at |-> id]
         IN  IF conflict
             THEN Done(Tables(db.partnerships, db.filters, db.shares, db.serial,
                              "idle"),
                       Return(ShareResult(TRUE, "")))
             ELSE Done(Tables(db.partnerships, db.filters, db.shares \cup {row},
                              [db.serial EXCEPT !.shared_filters = id + 1], "idle"),
                       Return(ShareResult(TRUE, "")))

\* ORDER BY sf.created_at DESC over the rows of shared_filters.
RECURSIVE OrderBySharedAt(_)
OrderBySharedAt(S) ==
    IF S = {} THEN <<>>
    ELSE LET first == CHOOSE r \in S : \A q \in S \ {r} : r.created_at > q.created_at
         IN  <<first>> \o OrderBySharedAt(S \ {first})

\* Database.get_shared_filters(user_id): shared_filters JOIN saved_filters
\* ON f.id = sf.filter_id JOIN users ON u.id = sf.owner_id.
Database_get_shared_filters(db, user_id) ==
    IF ~ensure_connection(db) THEN Done(db, Raise("InternalError"))
    ELSE LET joined == {s \in db.shares :
                           /\ s.shared_with_id = user_id
                           /\ \E f \in db.filters : f.id = s.filter_id
                           /\ \E u \in users : u.id = s.owner_id}
             list   == OrderBySharedAt(joined)
             f(s)   == CHOOSE x \in db.filters : x.id = s.filter_id
             u(s)   == CHOOSE x \in users : x.id = s.owner_id
         IN  Done(db, Return([i \in 1..Len(list) |->
                 [id |-> f(list[i]).id, name |-> f(list[i]).name,
                  filter_column |-> f(list[i]).filter_column,
                  filter_text |-> f(list[i]).filter_text,
                  shared_by |-> u(list[i]).username,
                  shared_at |-> list[i].created_at]]))

\* ------------------------------------------------------------------------
\* The values the calls of the model are made with
\* ------------------------------------------------------------------------

\* "2024-01-31"
Jan31 == <<"2", "0", "2", "4", "-", "0", "1", "-", "3", "1">>

\* "2024-3-5": not zero-padded, and a date to strptime all the same
Mar5 == <<"2", "0", "2", "4", "-", "3", "-", "5">>

\* "2024-02-01"
Feb1 == <<"2", "0", "2", "4", "-", "0", "2", "-", "0", "1">>

\* "2024-02-30": no such day
Feb30 == <<"2", "0", "2", "4", "-", "0", "2", "-", "3", "0">>

Gas == <<"g", "a", "s">>

Rent == <<"r", "e", "n", "t">>

\* "Income"
IncomeCapital == <<"I", "n", "c", "o", "m", "e">>

Gift == <<"g", "i", "f", "t">>

\* 30.0, 12.345, -5.0 and 100000000.0
Thirty == Dec(FALSE, 30, 0)

TwelveMills == Dec(FALSE, 12, 345)

MinusFive == Dec(TRUE, 5, 0)

Huge == Dec(FALSE, NumericWholeLimit, 0)

\* "abc" and "30"
Abc == <<"a", "b", "c">>

ThirtyStr == <<"3", "0">>

\* A transaction payload.
Payload(date, type, description, amount) ==
    [date |-> date, type |-> type, description |-> description, amount |-> amount]

BasePayload == Payload(PyStr(Jan31), PyStr(Expense), PyStr(Gas), PyFloat(Thirty))

\* The payload d without the key k.
Without(d, k) == [x \in DOMAIN d \ {k} |-> d[x]]

\* Payloads add_transaction accepts, as far as its own checks go.
GoodPayloads ==
    { BasePayload,
      Payload(PyStr(Jan31), PyStr(Income), PyStr(Rent), PyFloat(TwelveMills)),
      Payload(PyStr(Mar5), PyStr(IncomeCapital), PyStr(Gas), PyStr(ThirtyStr)),
      Payload(PyStr(Jan31), PyStr(Expense), PyStr(Gas), PyFloat(MinusFive)),
      [BasePayload EXCEPT !.amount = PyFloat(Huge)] }

\* Payloads with one field missing, of the wrong kind or without meaning.
BadPayloads ==
    { [BasePayload EXCEPT !.date = PyStr(Feb30)],
      [BasePayload EXCEPT !.amount = PyStr(Abc)],
      [BasePayload EXCEPT !.amount = PyNone],
      [BasePayload EXCEPT !.type = PyNone],
      [BasePayload EXCEPT !.type = PyStr(Gift)] }
    \cup { Without(BasePayload, k) : k \in RequiredFields }

Payloads == GoodPayloads \cup BadPayloads

\* The ids and row numbers calls name: those a row can have, and one more.
Ids == 1..(MaxRows + 1)

\* The row numbers a table of the model has, and those no table has.
RowNumbers == {PyInt(n) : n \in 1..MaxRows}

NoRowNumbers == {PyInt(0), PyInt(MaxRows + 1), PyNone}

Dict(k, v) == [x \in {k} |-> v]

\* The updates maps of update_transaction_by_row.
UpdatesByRow ==
    { Dict("amount", PyFloat(TwelveMills)),
      Dict("amount", PyFloat(MinusFive)),
      Dict("amount", PyStr(Abc)),
      Dict("amount", PyNone),
      Dict("type", PyStr(Income)),
      Dict("type", PyStr(IncomeCapital)),
      Dict("type", PyStr(Gift)),
      Dict("date", PyStr(Mar5)),
      Dict("date", PyStr(Feb30)),
      Dict("description", PyStr(Rent)),
      Dict("category", PyStr(Gas)) }

\* The updates maps that change the amount alone: to 12.345, 30.0 and -5.005.
AmountUpdates ==
    { Dict("amount", PyFloat(TwelveMills)), Dict("amount", PyFloat(Thirty)),
      Dict("amount", PyFloat(Dec(TRUE, 5, 5))) }

\* The payloads of the calls made next to the store's own operations.
StorePayloads ==
    { BasePayload,
      Payload(PyStr(Jan31), PyStr(Income), PyStr(Rent), PyFloat(TwelveMills)) }

\* The (field, value) pairs of Database.update_transaction.
FieldUpdates ==
    { <<"type", PyStr(Gift)>>,
      <<"amount", PyFloat(TwelveMills)>>,
      <<"amount", PyStr(Abc)>>,
      <<"user_id", PyInt(2)>>,
      <<"category", PyStr(Gas)>> }

\* The command objects of process_command.
Commands ==
    { [command |-> PyStr(CmdAdd), transaction |-> Without(BasePayload, "amount")],
      [command |-> PyStr(<<"A", "d", "d">>), transaction |-> BasePayload],
      [command |-> PyStr(CmdDelete), row_number |-> PyInt(1)],
      [command |-> PyStr(CmdDelete),
       criteria |-> [date |-> PyStr(Jan31), description |-> PyStr(Gas)]],
      [command |-> PyStr(CmdUpdate), row_number |-> PyInt(1),
       updates |-> Dict("amount", PyFloat(TwelveMills))],
      [command |-> PyStr(CmdUpdate), row_number |-> PyInt(1), updates |-> <<>>],
      [command |-> PyStr(<<"r", "e", "m", "o", "v", "e">>), row_number |-> PyInt(1)],
      [row_number |-> PyInt(1)],
      [command |-> PyNone, row_number |-> PyInt(1)],
      [command |-> PyStr(CmdDelete), row_number |-> PyInt(MaxRows + 1)],
      [command |-> PyStr(CmdUpdate), row_number |-> PyInt(0),
       updates |-> Dict("amount", PyFloat(TwelveMills))],
      [command |-> PyStr(CmdUpdate),
       criteria |-> [date |-> PyStr(Feb1), description |-> PyStr(Gas)],
       updates |-> Dict("amount", PyFloat(TwelveMills))] }

\* The reply r with the action a.
WithAction(r, a) == [k \in DOMAIN r \cup {"action"} |-> IF k = "action" THEN a ELSE r[k]]

\* The replies of the model process_chat_message reads: without an action,
\* with the actions the prompt asks for, on rows the table has and on rows
\* it has not, and with actions the prompt does not ask for.
Replies ==
    LET said   == [message |-> <<"ok">>]
        Delete == <<"D", "e", "l", "e", "t", "e">>
        amount == Dict("amount", PyFloat(TwelveMills))
    IN  { said, WithAction(said, PyNone), WithAction(said, PyStr(CmdDelete)),
          WithAction(<<>>, [command |-> PyStr(CmdDelete), row_number |-> PyInt(0)]) }
        \cup { WithAction(said, [command |-> PyStr(CmdDelete), row_number |-> n]) :
                 n \in RowNumbers \cup NoRowNumbers \cup {PyStr(<<"1">>)} }
        \cup { WithAction(said, a) : a \in
                 { [command |-> PyStr(CmdDelete)],
                   [command |-> PyStr(CmdUpdate), row_number |-> PyInt(1),
                    updates |-> amount],
                   [command |-> PyStr(CmdUpdate), row_number |-> PyInt(MaxRows + 1),
                    updates |-> amount],
                   [command |-> PyStr(CmdUpdate), row_number |-> PyInt(1)],
                   [command |-> PyStr(CmdAdd), transaction |-> BasePayload],
                   [command |-> PyStr(CmdAdd),
                    transaction |-> Without(BasePayload, "amount")],
                   [command |-> PyStr(CmdAdd), transaction |-> PyNone],
                   [command |-> PyStr(CmdAdd)],
                   [command |-> PyStr(Delete), row_number |-> PyInt(MaxRows + 1)],
                   [command |-> PyStr(<<"r", "e", "m", "o", "v", "e">>),
                    row_number |-> PyInt(1)],
                   [command |-> PyNone, row_number |-> PyInt(1)],
                   [row_number |-> PyInt(1)] } }

\* The id lists of delete_transactions.
IdLists ==
    { <<1>>, <<MaxRows + 1>>, <<1, 1>>, <<2, MaxRows + 1>>,
      <<1, 2, MaxRows + 1>>, <<MaxRows + 1, 1, 2>> }

\* The rows inserted into the tables whose balance is read, as (type,
\* amount, user_id): the three types with 100.00, 30.00, 20.00 and 0.50, for
\* an owner and for none; a type that is none of the three; and an amount
\* that the column amount cannot hold.
BalanceAmounts ==
    {Dec(FALSE, 100, 0), Dec(FALSE, 30, 0), Dec(FALSE, 20, 0), Dec(FALSE, 0, 500)}

BalanceRows ==
    (TransactionTypes \X BalanceAmounts \X {NoUser, Val(1)})
    \cup {<<Gift, Dec(FALSE, 100, 0), NoUser>>, <<Income, Huge, NoUser>>}

\* The owners a balance is asked for: none, one with rows, one without.
Owners == {NoUser, Val(1), Val(2)}

\* The rows of the tables that are filtered, as (type, description,
\* user_id): with and without a description, for two owners and for none.
FilterRows ==
    { <<Expense, Val(Gas), Val(1)>>, <<Income, Val(Rent), Val(1)>>,
      <<Expense, Val(Rent), Val(2)>>, <<Subscription, Null(NoStr), NoUser>> }

\* The filter texts: "gas", "GAS, rent", "inc", "xyz,", "", "_" and "e%e",
\* and for the column amount "30", "abc", "12.35" and "12.345"; None is no
\* text.
FilterTexts ==
    { PyStr(Gas),
      PyStr(<<"G", "A", "S", ",", " ", "r", "e", "n", "t">>),
      PyStr(<<"i", "n", "c">>),
      PyStr(<<"x", "y", "z", ",">>),
      PyStr(<<>>),
      PyStr(<<"_">>),
      PyStr(<<"e", "%", "e">>) }

\* The (column, value) pairs of filter_transactions.
Filters ==
    ({"type", "description"} \X FilterTexts)
    \cup ({"amount"} \X {PyStr(ThirtyStr), PyStr(Abc), PyNone,
                          PyStr(<<"1", "2", ".", "3", "5">>),
                          PyStr(<<"1", "2", ".", "3", "4", "5">>)})
    \cup {<<"description", PyNone>>, <<"date", PyStr(Jan31)>>}

\* The calls made while the network fails: an INSERT the table takes, one
\* whose amount it cannot hold, three filters and a read of the whole table.
RetryCalls ==
    { [op |-> "Database.add_transaction", date |-> strptime(Jan31).date,
       type |-> Expense, description |-> Val(Gas), amount |-> Thirty,
       user_id |-> NoUser],
      [op |-> "Database.add_transaction", date |-> strptime(Jan31).date,
       type |-> Expense, description |-> Val(Gas), amount |-> Huge,
       user_id |-> NoUser],
      [op |-> "Database.filter_transactions", column |-> "type",
       value |-> PyStr(Expense), owner_id |-> NoUser],
      [op |-> "Database.filter_transactions", column |-> "amount",
       value |-> PyStr(ThirtyStr), owner_id |-> NoUser],
      [op |-> "Database.filter_transactions", column |-> "amount",
       value |-> PyStr(Abc), owner_id |-> NoUser],
      [op |-> "Database.get_transactions", user_id |-> NoUser] }

\* The ids of users calls name, and their usernames with one no user has:
\* dave.
UserIds == {u.id : u \in users}

Usernames == {u.username : u \in users} \cup {<<"d", "a", "v", "e">>}

\* The statuses update_partnership_status is called with: the three of a
\* partnership and one that is none of them.
Statuses == PartnershipStatus \cup {"blocked"}

\* The ids of partnerships and filters calls name: those a row can have,
\* and one more.
PartnershipIds == 1..(MaxPartnerships + 1)

FilterIds == 1..(MaxFilters + 1)

\* The (name, filter_column, filter_text, user_id) of save_filter: a filter
\* of each of two users, and one whose name, of 101 letters, the column
\* cannot hold.  The column filtered is "type".
SavedFilterInputs ==
    LET type == PyStr(<<"t", "y", "p", "e">>)
        long == PyStr([i \in 1..(NameMaxLen + 1) |-> "x"])
    IN  { <<PyStr(Gas), type, PyStr(Gas), Val(1)>>,
          <<PyStr(Rent), type, PyStr(Rent), Val(2)>>,
          <<long, type, PyStr(Gas), Val(1)>> }

\* ------------------------------------------------------------------------
\* The state machine
\* ------------------------------------------------------------------------

DB == Store(transactions, seq, txn)

\* The call c was made and had the outcome o.
Step(c, o) ==
    /\ transactions' = o.tx
    /\ seq' = o.seq
    /\ txn' = o.txn
    /\ call' = c
    /\ ret' = o.ret
    /\ retries' = NoRetries
    /\ UNCHANGED <<user_partnerships, saved_filters, shared_filters, serial, chat,
                   requests>>

\* A step of a behaviour that inserts at most MaxRows rows.
Do(c, o) == o.seq <= MaxRows + 1 /\ Step(c, o)

Init ==
    /\ transactions = {}
    /\ seq = 1
    /\ txn = "idle"
    /\ call = [op |-> "init"]
    /\ ret = Return(FALSE)
    /\ retries = NoRetries
    /\ user_partnerships = {}
    /\ saved_filters = {}
    /\ shared_filters = {}
    /\ serial = FirstSerials
    /\ chat = NoChat
    /\ requests = [s \in Sessions |-> NoRequest]

AddTransaction(P) ==
    \E td \in P :
        Do([op |-> "add_transaction", data |-> td], add_transaction(DB, td))

\* A row number no table has is tried with one updates map.
UpdateTransactionByRow(U) ==
    \E n \in RowNumbers \cup NoRowNumbers, u \in U :
        /\ n \in NoRowNumbers => u = CHOOSE x \in U : TRUE
        /\ Do([op |-> "update_transaction_by_row", row_number |-> n, updates |-> u],
              update_transaction_by_row(DB, n, u))

DeleteTransactionByRow ==
    \E n \in RowNumbers \cup NoRowNumbers :
        Do([op |-> "delete_transaction_by_row", row_number |-> n],
           delete_transaction_by_row(DB, n))

ProcessCommand ==
    \E cd \in Commands :
        Do([op |-> "process_command", data |-> cd], process_command(DB, cd))

DatabaseUpdateTransaction ==
    \E id \in Ids, fv \in FieldUpdates :
        Do([op |-> "Database.update_transaction", id |-> id,
            field |-> fv[1], value |-> fv[2]],
           Database_update_transaction(DB, id, fv[1], fv[2]))

DatabaseDeleteTransaction ==
    \E id \in Ids :
        Do([op |-> "Database.delete_transaction", id |-> id],
           Database_delete_transaction(DB, id))

DeleteTransactions ==
    \E ids \in IdLists :
        Do([op |-> "delete_transactions", ids |-> ids], delete_transactions(DB, ids))

\* The manager's interface.
Next ==
    \/ AddTransaction(Payloads)
    \/ UpdateTransactionByRow(UpdatesByRow)
    \/ DeleteTransactionByRow
    \/ ProcessCommand

Spec == Init /\ [][Next]_vars

\* The store's interface, next to the manager's calls that fill and read
\* the table.
NextStore ==
    \/ AddTransaction(StorePayloads)
    \/ UpdateTransactionByRow(AmountUpdates)
    \/ DeleteTransactionByRow
    \/ DatabaseUpdateTransaction
    \/ DatabaseDeleteTransaction
    \/ DeleteTransactions

SpecStore == Init /\ [][NextStore]_vars

\* The balance of a table: rows are inserted by Database.add_transaction, for
\* an owner or for none, and the balance is read for an owner or for none.
DatabaseAddTransaction ==
    \E row \in BalanceRows :
        LET o == Database_add_transaction(DB, strptime(Jan31).date, row[1], Val(Gas),
                                          row[2], row[3])
        IN  /\ o.seq <= MaxBalanceRows + 1
            /\ Step([op |-> "Database.add_transaction"], o)

GetBalance ==
    \E u \in Owners :
        Step([op |-> "Database.get_balance", user_id |-> u],
             Database_get_balance(DB, u))

NextBalance == DatabaseAddTransaction \/ GetBalance

SpecBalance == Init /\ [][NextBalance]_vars

\* The summary of the tables the manager fills.
GetSummaryStats == Step([op |-> "get_summary_stats"], get_summary_stats(DB))

NextSummary == AddTransaction(GoodPayloads) \/ GetSummaryStats

SpecSummary == Init /\ [][NextSummary]_vars

\* Deletions by scope: n is an int from -1 to one more than the table can
\* hold, or None; the ids named are one of a row and one of none.
GetLatestTransactionIds ==
    \E limit \in {PyInt(n) : n \in (-1)..(MaxRows + 1)} \cup {PyNone} :
        Step([op |-> "Database.get_latest_transaction_ids", limit |-> limit],
             Database_get_latest_transaction_ids(DB, limit))

DeleteByScope ==
    \E deletion_type \in {"specific_ids", "last_n", "first_n", "all",
                          "all_except_last_n", "all_except_ids", "none"},
       n \in {PyInt(i) : i \in (-1)..(MaxRows + 1)} \cup {PyNone},
       transaction_ids \in {<<>>, <<1, MaxRows + 1>>} :
        /\ deletion_type \in {"specific_ids", "all_except_ids"} => n = PyInt(1)
        /\ deletion_type \notin {"specific_ids", "all_except_ids"} =>
               transaction_ids = <<>>
        /\ Step([op |-> "deletion", deletion_type |-> deletion_type, n |-> n,
                 transaction_ids |-> transaction_ids],
                deletion(DB, deletion_type, n, transaction_ids))

NextScope == AddTransaction(StorePayloads) \/ GetLatestTransactionIds \/ DeleteByScope

SpecScope == Init /\ [][NextScope]_vars

\* The chat of one session next to the calls of another: the chat reads the
\* table and asks the model, which replies anything; the action handed back
\* is given to process_command, after whatever the other session did in
\* between.
ProcessChatMessage ==
    \E result \in Replies :
        LET df == get_transactions_df(DB) IN
        /\ df.ret.kind = "return"
        /\ LET r == process_chat_message(result, df.ret.val) IN
           /\ call' = [op |-> "process_chat_message", result |-> result]
           /\ ret' = r
           /\ chat' = IF r.kind = "return"
                      THEN Chat(df.ret.val, Get(r.val, "action", PyNone))
                      ELSE NoChat
        /\ retries' = NoRetries
        /\ UNCHANGED <<transactions, seq, txn, user_partnerships, saved_filters,
                       shared_filters, serial, requests>>

\* The call c, made with the action of the chat turn, had the outcome o.
StepChat(c, o) ==
    /\ o.seq <= MaxRows + 1
    /\ transactions' = o.tx
    /\ seq' = o.seq
    /\ txn' = o.txn
    /\ call' = c
    /\ ret' = o.ret
    /\ retries' = NoRetries
    /\ chat' = NoChat
    /\ UNCHANGED <<user_partnerships, saved_filters, shared_filters, serial,
                   requests>>

\* if result['action']: process_command(result['action'])
DispatchAction ==
    /\ ~IsPy(chat.action) /\ DOMAIN chat.action # {}
    /\ StepChat([op |-> "process_command", data |-> chat.action],
                process_command(DB, chat.action))

NextChat ==
    \/ AddTransaction(StorePayloads)
    \/ DeleteTransactionByRow
    \/ ProcessChatMessage
    \/ DispatchAction

SpecChat == Init /\ [][NextChat]_vars

\* Filters: rows are inserted by Database.add_transaction and the table is
\* filtered, for an owner or for none.
DatabaseAddFilteredRow ==
    \E row \in FilterRows, amount \in {Thirty, TwelveMills} :
        Do([op |-> "Database.add_transaction"],
           Database_add_transaction(DB, strptime(Jan31).date, row[1], row[2],
                                    amount, row[3]))

FilterTransactions ==
    \E cv \in Filters, owner \in {NoUser, Val(1)} :
        Do([op |-> "Database.filter_transactions", column |-> cv[1],
            value |-> cv[2], owner_id |-> owner],
           Database_filter_transactions(DB, cv[1], cv[2], NoUser, owner))

NextFilter == DatabaseAddFilteredRow \/ FilterTransactions

SpecFilter == Init /\ [][NextFilter]_vars

\* The call c was made while the network failed and had the outcome o.
StepRetry(c, o) ==
    /\ o.seq <= MaxRows + 1
    /\ transactions' = o.tx
    /\ seq' = o.seq
    /\ txn' = o.txn
    /\ call' = c
    /\ ret' = o.ret
    /\ retries' = Retries(o.runs, o.lost, o.cause)
    /\ UNCHANGED <<user_partnerships, saved_filters, shared_filters, serial, chat,
                   requests>>

\* The operations of Database under connectivity failures.
CallWithRetries ==
    \E c \in RetryCalls, schedule \in Schedules :
        StepRetry(c, with_retries(DB, c, schedule))

SpecRetry == Init /\ [][CallWithRetries]_vars

\* Partnerships and filters.
SHARING == Tables(user_partnerships, saved_filters, shared_filters, serial, txn)

\* The call c on the tables of partnerships and filters had the outcome o.
StepSharing(c, o) ==
    /\ o.serial.user_partnerships <= MaxPartnerships + 1
    /\ o.serial.saved_filters <= MaxFilters + 1
    /\ o.serial.shared_filters <= MaxShares + 1
    /\ user_partnerships' = o.partnerships
    /\ saved_filters' = o.filters
    /\ shared_filters' = o.shares
    /\ serial' = o.serial
    /\ txn' = o.txn
    /\ call' = c
    /\ ret' = o.ret
    /\ retries' = NoRetries
    /\ UNCHANGED <<transactions, seq, chat, requests>>

SaveFilter ==
    \E f \in SavedFilterInputs :
        StepSharing([op |-> "Database.save_filter", name |-> f[1],
                     filter_column |-> f[2], filter_text |-> f[3], user_id |-> f[4]],
                    Database_save_filter(SHARING, f[1], f[2], f[3], f[4]))

GetSavedFilters ==
    \E u \in {Val(id) : id \in UserIds} \cup {NoUser} :
        StepSharing([op |-> "Database.get_saved_filters", user_id |-> u],
                    Database_get_saved_filters(SHARING, u))

DeleteSavedFilter ==
    \E id \in FilterIds :
        StepSharing([op |-> "Database.delete_saved_filter", filter_id |-> id],
                    Database_delete_saved_filter(SHARING, id))

SendPartnershipRequest ==
    \E u \in UserIds, name \in Usernames :
        StepSharing([op |-> "Database.send_partnership_request", user_id |-> u,
                     partner_username |-> name],
                    Database_send_partnership_request(SHARING, u, name))

UpdatePartnershipStatus ==
    \E id \in PartnershipIds, u \in UserIds, status \in Statuses :
        StepSharing([op |-> "Database.update_partnership_status",
                     partnership_id |-> id, user_id |-> u, status |-> status],
                    Database_update_partnership_status(SHARING, id, u, status))

ShareFilter ==
    \E id \in FilterIds, owner \in UserIds, partner \in UserIds :
        StepSharing([op |-> "Database.share_filter", filter_id |-> id,
                     owner_id |-> owner, partner_id |-> partner],
                    Database_share_filter(SHARING, id, owner, partner))

GetSharedFilters ==
    \E u \in UserIds :
        StepSharing([op |-> "Database.get_shared_filters", user_id |-> u],
                    Database_get_shared_filters(SHARING, u))

NextSharing ==
    \/ SaveFilter
    \/ GetSavedFilters
    \/ DeleteSavedFilter
    \/ SendPartnershipRequest
    \/ UpdatePartnershipStatus
    \/ ShareFilter
    \/ GetSharedFilters

SpecSharing == Init /\ [][NextSharing]_vars

\* Requests of two sessions.  send_partnership_request is two steps, its
\* SELECTs and its INSERT with the commit: the statements of two sessions
\* reach the store one by one, in any order.
StepRequests(c, o, rq) ==
    /\ o.serial.user_partnerships <= MaxRequests + 1
    /\ user_partnerships' = o.partnerships
    /\ serial' = o.serial
    /\ txn' = o.txn
    /\ call' = c
    /\ ret' = o.ret
    /\ retries' = NoRetries
    /\ requests' = rq
    /\ UNCHANGED <<transactions, seq, saved_filters, shared_filters, chat>>

\* The SELECTs of the request c of session s, whose call would have the
\* outcome o were its INSERT to follow at once: the call returns when it
\* inserts nothing, and goes on to its INSERT otherwise.
Selects(s, c, o) ==
    IF o.ret.kind = "return" /\ ~o.ret.val.id.null
    THEN /\ requests' =
               [requests EXCEPT ![s] =
                   [pc |-> "insert", user_id |-> c.user_id,
                    partner_id |->
                        (CHOOSE p \in o.partnerships : p.id = o.ret.val.id.val)
                            .partner_id]]
         /\ UNCHANGED <<transactions, seq, txn, call, ret, retries,
                        user_partnerships, saved_filters, shared_filters, serial,
                        chat>>
    ELSE StepRequests(c, o, requests)

BeginRequest ==
    \E s \in Sessions, u \in UserIds, name \in Usernames :
        /\ requests[s] = NoRequest
        /\ Selects(s, [op |-> "Database.send_partnership_request", user_id |-> u,
                       partner_username |-> name],
                   Database_send_partnership_request(SHARING, u, name))

FinishRequest ==
    \E s \in Sessions :
        /\ requests[s] # NoRequest
        /\ StepRequests([op |-> "Database.send_partnership_request",
                         user_id |-> requests[s].user_id,
                         partner_id |-> requests[s].partner_id],
                        InsertPartnership(SHARING, requests[s].user_id,
                                          requests[s].partner_id),
                        [requests EXCEPT ![s] = NoRequest])

AnswerRequest ==
    \E id \in 1..MaxRequests, u \in UserIds, status \in {"accepted", "rejected"} :
        StepRequests([op |-> "Database.update_partnership_status",
                      partnership_id |-> id, user_id |-> u, status |-> status],
                     Database_update_partnership_status(SHARING, id, u, status),
                     requests)

GetPartners ==
    \E u \in UserIds :
        StepRequests([op |-> "Database.get_partners", user_id |-> u],
                     Database_get_partners(SHARING, u), requests)

NextRequests == BeginRequest \/ FinishRequest \/ AnswerRequest \/ GetPartners

SpecRequests == Init /\ [][NextRequests]_vars

\* The same with one request at a time: no session begins a request while
\* another is between its SELECTs and its INSERT.
SpecRequestsInTurn ==
    Init /\ [][ \/ BeginRequest /\ \A s \in Sessions : requests[s] = NoRequest
                \/ FinishRequest
                \/ AnswerRequest
                \/ GetPartners ]_vars

\* ------------------------------------------------------------------------
\* What the properties are stated with
\* ------------------------------------------------------------------------

\* income, expense, subscription
TypeEnum == {Income, Expense, Subscription}

\* The text s has the form YYYY-MM-DD; IsoDate(s) is the day it then names.
IsoForm(s) ==
    /\ Len(s) = 10
    /\ AllDigits(s, 1, 4) /\ s[5] = "-"
    /\ AllDigits(s, 6, 7) /\ s[8] = "-"
    /\ AllDigits(s, 9, 10)

IsoDate(s) ==
    [y |-> DigitsVal(s, 1, 4), m |-> DigitsVal(s, 6, 7), d |-> DigitsVal(s, 9, 10)]

IsCalendarDate(d) ==
    d.y >= 1 /\ d.m \in 1..12 /\ d.d >= 1 /\ d.d <= DaysInMonth(d.y, d.m)

\* A valid payload: a date in the form YYYY-MM-DD, a type of the enum, a
\* description that is not empty, a number >= 0 as amount.
ValidPayload(td) ==
    /\ DOMAIN td = RequiredFields
    /\ td.date.t = "str" /\ IsoForm(td.date.s) /\ IsCalendarDate(IsoDate(td.date.s))
    /\ td.type.t = "str" /\ td.type.s \in TypeEnum
    /\ td.description.t = "str" /\ td.description.s # <<>>
    /\ td.amount.t \in {"int", "float"} /\ ~td.amount.v.neg

\* The amount a of two decimal places is the number v rounded to two places,
\* a half rounded away from zero: |a| - |v|, in thousandths, lies in -4..5,
\* and a has the sign of v unless it is zero.
RoundedToCents(a, v) ==
    /\ a.f % 10 = 0
    /\ 1000 * (a.w - v.w) + (a.f - v.f) \in -4..5
    /\ a.neg <=> (v.neg /\ (a.w # 0 \/ a.f # 0))

\* The dicts Database.get_transactions() returns on the store (tx, sq, tn).
ReadBack(tx, sq, tn) ==
    LET g == Database_get_transactions(Store(tx, sq, tn), NoUser).ret
    IN  IF g.kind = "return" THEN {g.val[i] : i \in 1..Len(g.val)} ELSE {}

IdsOf(tx) == {r.id : r \in tx}

Range(f) == {f[i] : i \in DOMAIN f}

\* ------------------------------------------------------------------------
\* C1: add_transaction, then get_transactions
\* ------------------------------------------------------------------------

\* The last call was add_transaction of a valid payload, and it returned.
C1_Added ==
    call.op = "add_transaction" /\ ret.kind = "return" /\ ValidPayload(call.data)

\* C1 as claimed: after add_transaction of a valid payload has returned an id,
\* get_transactions() has a row with that id whose date, type, description
\* and amount equal the payload's.
C1_IdenticalFields ==
    C1_Added =>
        \E r \in ReadBack(transactions, seq, txn) :
            /\ r.id = ret.val
            /\ r.date = IsoDate(call.data.date.s)
            /\ r.type = call.data.type.s
            /\ r.description = Val(call.data.description.s)
            /\ r.amount = call.data.amount.v

\* C1 as amended: after add_transaction of a valid payload has returned an id,
\* get_transactions() has a row with that id whose date, type and description
\* equal the payload's and whose amount is the payload's amount rounded to
\* two decimal places (the payload's amount when it has no more than two).
C1_FieldsToTheCent ==
    C1_Added =>
        \E r \in ReadBack(transactions, seq, txn) :
            /\ r.id = ret.val
            /\ r.date = IsoDate(call.data.date.s)
            /\ r.type = call.data.type.s
            /\ r.description = Val(call.data.description.s)
            /\ RoundedToCents(r.amount, call.data.amount.v)
            /\ call.data.amount.v.f % 10 = 0 => r.amount = call.data.amount.v

\* A valid payload whose amount has three decimal places was added.
C1_Witness == C1_Added /\ call.data.amount.v.f % 10 # 0

\* ------------------------------------------------------------------------
\* C2: add_transaction of an invalid payload
\* ------------------------------------------------------------------------

\* A field is missing, the type is none of the enum (letter case apart), or
\* the date or the amount does not parse.
InvalidPayload(td) ==
    \/ ~(RequiredFields \subseteq DOMAIN td)
    \/ ~(td.type.t = "str" /\ str_lower(td.type.s) \in TypeEnum)
    \/ ~(td.date.t = "str" /\ strptime(td.date.s).ok)
    \/ float(td.amount).res # "ok"

\* C2 as claimed: add_transaction of an invalid payload raises the validation
\* error (ValueError), and the stored transactions are the same after the
\* call as before it.
C2_InvalidRejected ==
    [][ (call'.op = "add_transaction" /\ InvalidPayload(call'.data)) =>
            (ret' = Raise("ValueError") /\ transactions' = transactions) ]_vars

\* C2 where the code meets it: the same, of the invalid payloads whose amount
\* is not None and whose type is a string.
C2_InvalidStringsRejected ==
    [][ ( /\ call'.op = "add_transaction" /\ InvalidPayload(call'.data)
          /\ "amount" \in DOMAIN call'.data => call'.data.amount.t # "none"
          /\ "type" \in DOMAIN call'.data => call'.data.type.t = "str" ) =>
            (ret' = Raise("ValueError") /\ transactions' = transactions) ]_vars

\* ------------------------------------------------------------------------
\* C3, C4: the stored types and amounts
\* ------------------------------------------------------------------------

\* C3 as claimed: in every state reachable by the operations of the manager
\* and of the store, the type of every stored transaction is one of income,
\* expense, subscription.
C3_TypesOfTheEnum == \A r \in transactions : r.type \in TypeEnum

\* C4 as claimed: in every state reachable by the operations of the manager,
\* every stored transaction has an amount >= 0.
C4_AmountsNotNegative == \A r \in transactions : ~r.amount.neg

\* ------------------------------------------------------------------------
\* C5: get_balance
\* ------------------------------------------------------------------------

\* A stored amount in cents.
Cents(a) ==
    IF a.neg THEN -(100 * a.w + a.f \div 10) ELSE 100 * a.w + a.f \div 10

\* The sum, in cents, of the amounts of the rows of S that have the type.
RECURSIVE SumOfType(_, _)
SumOfType(S, type) ==
    IF S = {} THEN 0
    ELSE LET r == CHOOSE x \in S : TRUE
         IN  (IF r.type = type THEN Cents(r.amount) ELSE 0)
             + SumOfType(S \ {r}, type)

\* The transactions of an owner; all of them when no owner is given.
OwnedBy(owner) ==
    IF owner.null THEN transactions
    ELSE {r \in transactions : ~r.user_id.null /\ r.user_id.val = owner.val}

\* What C5 says get_balance(owner) returns on the table tx.
C5_Returned(val, S) ==
    /\ val.f % 10 = 0
    /\ Cents(val) = SumOfType(S, Income) - SumOfType(S, Expense)
                    - SumOfType(S, Subscription)
    /\ S = {} => val = DecZero

\* C5 as claimed: get_balance(owner) returns the sum of the income amounts
\* minus the sum of the expense amounts minus the sum of the subscription
\* amounts, over the owner's transactions when an owner is given and over
\* all transactions otherwise, and 0 when there are no such rows.
C5_Balance ==
    call.op = "Database.get_balance" =>
        ret.kind = "return" /\ C5_Returned(ret.val, OwnedBy(call.user_id))

\* C5 where the code meets it: get_balance(owner) returns that value on a
\* connection whose transaction no failed statement has left aborted, and
\* raises on the others.
C5_BalanceOnUsableConnection ==
    call.op = "Database.get_balance" =>
        IF txn = "idle"
        THEN ret.kind = "return" /\ C5_Returned(ret.val, OwnedBy(call.user_id))
        ELSE ret.kind = "raise"

\* The balance of income 100, expense 30 and subscription 20 was read: 50.
C5_Example ==
    /\ call.op = "Database.get_balance" /\ call.user_id = NoUser
    /\ {<<r.type, r.amount>> : r \in transactions}
         = { <<Income, Dec(FALSE, 100, 0)>>, <<Expense, Dec(FALSE, 30, 0)>>,
             <<Subscription, Dec(FALSE, 20, 0)>> }
    /\ Cardinality(transactions) = 3
    /\ ret = Return(Dec(FALSE, 50, 0))

\* ------------------------------------------------------------------------
\* C6, C7: deleting
\* ------------------------------------------------------------------------

\* What C6 says of the step that delete_transactions(ids) makes.
C6_Results(ids) ==
    /\ ret'.kind = "return"
    /\ Len(ret'.val) = Len(ids)
    /\ \A i \in 1..Len(ids) :
         /\ ret'.val[i].id = ids[i]
         /\ ret'.val[i].success <=>
                /\ ids[i] \in IdsOf(transactions)
                /\ \A j \in 1..(i - 1) : ids[j] # ids[i]
         /\ ~ret'.val[i].success => ret'.val[i].error # ""
    /\ transactions' = {r \in transactions : r.id \notin Range(ids)}

\* C6 as claimed: delete_transactions(ids) returns one result per id, in
\* order; the result of an id is a success when the id is stored at its turn
\* and a failure with an error when it is not, whatever the other ids are;
\* and every stored id of the list is removed, and nothing else.
C6_BatchDelete ==
    [][ call'.op = "delete_transactions" => C6_Results(call'.ids) ]_vars

\* C6 where the model meets it: on a connection whose transaction no failed
\* statement has left aborted.
C6_BatchDeleteOnUsableConnection ==
    [][ (call'.op = "delete_transactions" /\ txn = "idle") =>
            C6_Results(call'.ids) ]_vars

\* The last step deleted by an id that is not stored, or by a row number
\* greater than the number of transactions.
C7_AbsentById ==
    call'.op = "Database.delete_transaction" /\ call'.id \notin IdsOf(transactions)

C7_AbsentByRow ==
    /\ call'.op = "delete_transaction_by_row"
    /\ call'.row_number.t = "int"
    /\ call'.row_number.v.w > Cardinality(transactions)

\* C7 as claimed: Database.delete_transaction of an id that is not stored
\* returns False, delete_transaction_by_row(n) for n greater than the number
\* of transactions raises, and both leave the stored transactions unchanged.
C7_AbsentNotDeleted ==
    [][ /\ C7_AbsentById => (ret' = Return(FALSE) /\ transactions' = transactions)
        /\ C7_AbsentByRow => (ret'.kind = "raise" /\ transactions' = transactions)
      ]_vars

\* C7 where the code meets it: neither call reports a success nor changes
\* the stored transactions, and Database.delete_transaction returns False on
\* a connection whose transaction no failed statement has left aborted.
C7_AbsentNeverSuccess ==
    [][ /\ C7_AbsentById =>
            /\ transactions' = transactions
            /\ IF txn = "idle" THEN ret' = Return(FALSE) ELSE ret'.kind = "raise"
        /\ C7_AbsentByRow => (ret'.kind = "raise" /\ transactions' = transactions)
      ]_vars

\* ------------------------------------------------------------------------
\* C8, C9, C10: updating
\* ------------------------------------------------------------------------

AllowedFields == {"date", "type", "amount", "description"}

\* C8 as claimed: an update that names a field other than date, type, amount
\* and description is rejected, no statement reaches the store (no row
\* changes and the connection's transaction is as it was), for
\* Database.update_transaction and for update_transaction_by_row.
C8_UnknownFieldRejected ==
    [][ /\ (call'.op = "Database.update_transaction"
              /\ call'.field \notin AllowedFields) =>
            (ret'.kind = "raise" /\ transactions' = transactions /\ txn' = txn)
        /\ (call'.op = "update_transaction_by_row"
              /\ ~(DOMAIN call'.updates \subseteq AllowedFields)) =>
            (ret'.kind = "raise" /\ transactions' = transactions /\ txn' = txn)
      ]_vars

\* The last step was a successful update of the amount alone, to a number.
C9_AmountUpdated ==
    /\ \/ /\ call'.op = "Database.update_transaction"
          /\ call'.field = "amount" /\ call'.value.t \in {"int", "float"}
       \/ /\ call'.op = "update_transaction_by_row"
          /\ DOMAIN call'.updates = {"amount"}
          /\ call'.updates.amount.t \in {"int", "float"}
    /\ ret' = Return(TRUE)

\* The id of the transaction that update addressed, and the amount it gave.
C9_Id ==
    IF call'.op = "Database.update_transaction" THEN call'.id
    ELSE Database_get_transactions(DB, NoUser).ret.val[call'.row_number.v.w].id

C9_Value ==
    IF call'.op = "Database.update_transaction" THEN call'.value.v
    ELSE call'.updates.amount.v

\* The transaction id reads the same before and after the step, the amount
\* apart.
C9_OthersKept(id) ==
    \E q \in ReadBack(transactions, seq, txn), r \in ReadBack(transactions', seq', txn') :
        /\ q.id = id /\ r.id = id
        /\ r.date = q.date /\ r.type = q.type /\ r.description = q.description

C10_Updated ==
    /\ call'.op = "update_transaction_by_row"
    /\ call'.row_number.t = "int"
    /\ call'.row_number.v.w \in 1..Cardinality(transactions)
    /\ \E f \in {"date", "type", "amount"} : DOMAIN call'.updates = {f}

\* The update returned if and only if add_transaction returns for the base
\* payload with the updated field set to the update's value.
C10_AcceptedAlike ==
    LET f     == CHOOSE k \in DOMAIN call'.updates : TRUE
        added == add_transaction(DB, [BasePayload EXCEPT ![f] = call'.updates[f]])
    IN  (ret'.kind = "return") <=> (added.ret.kind = "return")

\* C10 as claimed: update_transaction_by_row of a stored row accepts a value
\* for date, type or amount if and only if add_transaction accepts that value
\* for the same field of an otherwise valid payload.
C10_SameRulesAsAdd == [][ C10_Updated => C10_AcceptedAlike ]_vars

\* C10 where the code meets it: the same, of the values that are not a type
\* with a capital letter.
C10_SameRulesButLetterCase ==
    [][ ( /\ C10_Updated
          /\ "type" \in DOMAIN call'.updates =>
                str_lower(call'.updates.type.s) = call'.updates.type.s ) =>
            C10_AcceptedAlike ]_vars

\* ------------------------------------------------------------------------
\* C11: connectivity failures and the retry loop
\* ------------------------------------------------------------------------

\* C11, first part: under connectivity failures an operation of Database
\* runs its statement block at most max_retries (3) times.
C11_AtMostThreeRuns == retries.runs <= max_retries

\* C11: under connectivity failures every operation of Database runs its
\* statement block at most 3 times, and a call of which every attempt failed
\* with a connectivity error raises an error that carries the original cause;
\* it does not return a value.
C11_ExhaustionRaises ==
    /\ retries.runs <= max_retries
    /\ retries.lost =>
          ret.kind = "raise" /\ ret.exc = "Exception"
              /\ retries.cause = "OperationalError"

\* Where the code meets C11: every operation but filter_transactions, whose
\* "except Exception" takes the error of a connection that cannot be opened
\* for an error of its own and answers [].
C11_ExhaustionRaisesUnlessFiltering ==
    call.op # "Database.filter_transactions" => C11_ExhaustionRaises

\* Three attempts were made and failed, and the call raised.
C11_Exhausted ==
    retries.lost /\ retries.runs = max_retries /\ ret = Raise("Exception")

\* ------------------------------------------------------------------------
\* C12: a failed operation is rolled back
\* ------------------------------------------------------------------------

\* The calls of the manager and of the store that write to transactions.
MutatingOps ==
    { "add_transaction", "update_transaction_by_row", "delete_transaction_by_row",
      "process_command", "Database.add_transaction", "Database.update_transaction",
      "Database.delete_transaction", "delete_transactions" }

\* C12: whenever a mutating store operation ends with an exception, its
\* transaction is rolled back before the call returns: nothing the failed
\* operation wrote is committed, and the connection is not left in an open or
\* failed transaction, so that the next operation on it can succeed.
C12_FailedOperationRolledBack ==
    [][ (call'.op \in MutatingOps /\ ret'.kind = "raise")
            => transactions' = transactions /\ txn' = "idle" ]_vars

\* Where the code meets C12: an operation that ends with an exception has
\* committed nothing.
C12_FailedOperationWritesNothing ==
    [][ (call'.op \in MutatingOps /\ ret'.kind = "raise")
            => transactions' = transactions ]_vars

\* What the missing rollback costs: once a statement has failed, no later
\* call on the connection returns.
C12_AbortedConnectionRaises ==
    [][ txn = "aborted" => ret'.kind = "raise" /\ txn' = "aborted" ]_vars

\* ------------------------------------------------------------------------
\* C13: process_command
\* ------------------------------------------------------------------------

\* The command tag of a command object, in small letters; <<>> when the
\* object has none or one that is no text.
C13_Tag(cd) ==
    LET c == Get(cd, "command", PyStr(NoStr)) IN
    IF c.t = "str" THEN str_lower(c.s) ELSE <<>>

\* The command object names a row of the table tx by its row number.
C13_ValidTarget(cd, tx) ==
    LET n == Get(cd, "row_number", PyNone) IN
    valid_row_number(n) /\ n.v.w <= Cardinality(tx)

\* The command objects the claim has rejected: another tag than add, update
\* and delete, an add that lacks a field, an update or delete without a valid
\* target.
C13_Rejectable(cd, tx) ==
    \/ C13_Tag(cd) \notin {CmdAdd, CmdUpdate, CmdDelete}
    \/ /\ C13_Tag(cd) = CmdAdd
       /\ ~(RequiredFields \subseteq DOMAIN Get(cd, "transaction", <<>>))
    \/ C13_Tag(cd) \in {CmdUpdate, CmdDelete} /\ ~C13_ValidTarget(cd, tx)

\* From the store db the command object cd was handed to the operation its
\* tag names.
C13_Routed(db, cd) ==
    LET o == CASE C13_Tag(cd) = CmdAdd ->
                    add_transaction(db, cd.transaction)
               [] C13_Tag(cd) = CmdDelete ->
                    delete_transaction_by_row(db, cd.row_number)
               [] C13_Tag(cd) = CmdUpdate ->
                    update_transaction_by_row(db, cd.row_number,
                                              Get(cd, "updates", <<>>))
    IN  transactions' = o.tx /\ ret' = o.ret

\* An update that names a row and no field is rejected by process_command
\* itself.
C13_NoUpdates(cd) ==
    C13_Tag(cd) = CmdUpdate /\ DOMAIN Get(cd, "updates", <<>>) = {}

\* C13: process_command routes a command object by its tag, add to
\* add_transaction, update to the update operation, delete to the delete
\* operation; for any other tag, for an add that lacks one of date, type,
\* description, amount, and for an update or delete without a valid target it
\* raises ValueError and the stored transactions are unchanged.
C13_RoutedOrRejected ==
    [][ call'.op = "process_command" =>
          IF C13_Rejectable(call'.data, transactions) \/ C13_NoUpdates(call'.data)
          THEN ret' = Raise("ValueError") /\ transactions' = transactions
          ELSE C13_Routed(DB, call'.data) ]_vars

\* Where the code meets C13: command objects whose tag is a text, on a
\* connection that no failed statement has left aborted.
C13_RoutedOrRejectedTextTags ==
    [][ ( /\ call'.op = "process_command"
          /\ Get(call'.data, "command", PyStr(NoStr)).t = "str"
          /\ txn = "idle" ) =>
          IF C13_Rejectable(call'.data, transactions) \/ C13_NoUpdates(call'.data)
          THEN ret' = Raise("ValueError") /\ transactions' = transactions
          ELSE C13_Routed(DB, call'.data) ]_vars

\* An add was routed and stored a row; a delete without a row of its number
\* was rejected.
C13_AddRouted ==
    /\ call.op = "process_command" /\ C13_Tag(call.data) = CmdAdd
    /\ ret.kind = "return" /\ transactions # {}

C13_DeleteRejected ==
    /\ call.op = "process_command" /\ C13_Tag(call.data) = CmdDelete
    /\ "row_number" \in DOMAIN call.data
    /\ call.data.row_number = PyInt(MaxRows + 1)
    /\ ret = Raise("ValueError") /\ txn = "idle"

\* ------------------------------------------------------------------------
\* C14: commands addressed by criteria
\* ------------------------------------------------------------------------

\* The day after the day d.
C14_NextDay(d) ==
    IF d.d < DaysInMonth(d.y, d.m) THEN [d EXCEPT !.d = d.d + 1]
    ELSE IF d.m < 12 THEN [y |-> d.y, m |-> d.m + 1, d |-> 1]
    ELSE [y |-> d.y + 1, m |-> 1, d |-> 1]

\* An update or delete command addressed by {date, description} criteria.
C14_ByCriteria(cd) ==
    /\ C13_Tag(cd) \in {CmdUpdate, CmdDelete}
    /\ "criteria" \in DOMAIN cd
    /\ "row_number" \notin DOMAIN cd

\* The candidates of the criteria: the stored transactions within one day of
\* the criteria's date.
C14_Candidates(cd, tx) ==
    LET day == strptime(cd.criteria.date.s).date IN
    {r \in tx : r.date \in {day, C14_NextDay(day)} \/ day = C14_NextDay(r.date)}

\* The candidates whose description is the search text, letter for letter:
\* the best match there can be, its confidence above every threshold.
C14_ExactMatches(cd, tx) ==
    {r \in C14_Candidates(cd, tx) : r.description = Val(cd.criteria.description.s)}

\* C14: an update or delete command addressed by {date, description}
\* criteria is resolved against the candidate transactions within one day of
\* the date: with a candidate that matches the description it acts on it, and
\* without a candidate (no match, confidence below 0.5) it is rejected with an
\* error and no transaction is modified or deleted.
C14_ResolvedByCriteria ==
    [][ (call'.op = "process_command" /\ C14_ByCriteria(call'.data)) =>
          IF C14_ExactMatches(call'.data, transactions) # {}
          THEN ret'.kind = "return" /\ transactions' # transactions
          ELSE C14_Candidates(call'.data, transactions) = {} =>
                   ret'.kind = "raise" /\ transactions' = transactions ]_vars

\* What the code does with such a command: it is rejected for its missing
\* row number, whatever the table holds.
C14_CriteriaAlwaysRejected ==
    [][ (call'.op = "process_command" /\ C14_ByCriteria(call'.data)) =>
          ret' = Raise("ValueError") /\ transactions' = transactions ]_vars

\* A command by criteria was rejected although a stored transaction has its
\* date and description.
C14_RejectedWithMatch ==
    /\ call.op = "process_command" /\ C14_ByCriteria(call.data)
    /\ C14_ExactMatches(call.data, transactions) # {}
    /\ ret = Raise("ValueError")

\* ------------------------------------------------------------------------
\* C15: sharing a filter needs an accepted partnership
\* ------------------------------------------------------------------------

\* An accepted partnership exists between the users a and b, either way.
C15_Partners(a, b) ==
    \E p \in user_partnerships :
        /\ p.status = "accepted"
        /\ \/ p.user_id = a /\ p.partner_id = b
           \/ p.user_id = b /\ p.partner_id = a

\* get_shared_filters(user) on the tables db returns a list with the filter.
C15_Listed(db, user, filter_id) ==
    LET r == Database_get_shared_filters(db, user).ret IN
    r.kind = "return" /\ \E i \in 1..Len(r.val) : r.val[i].id = filter_id

\* share_filter refused: the error it returns for a missing partnership.
C15_Refused(r) ==
    r.kind = "return" /\ r.val = ShareResult(FALSE, "No active partnership found")

C15_Succeeded(r) == r.kind = "return" /\ r.val = ShareResult(TRUE, "")

\* What C15 says of a call of share_filter from the tables before it to the
\* tables after it.
C15_Step ==
    IF ~C15_Partners(call'.owner_id, call'.partner_id)
    THEN C15_Refused(ret') /\ shared_filters' = shared_filters
    ELSE /\ C15_Succeeded(ret')
         /\ (\E f \in saved_filters : f.id = call'.filter_id) =>
               C15_Listed(Tables(user_partnerships', saved_filters',
                                 shared_filters', serial', txn'),
                          call'.partner_id, call'.filter_id)

\* C15: share_filter(filter_id, owner_id, partner_id) fails with a
\* permission error and records no share while no accepted partnership exists
\* between owner and partner (none, pending or rejected, either way); once
\* the partnership is accepted the same call succeeds and the filter is in
\* get_shared_filters(partner_id).
C15_ShareNeedsPartnership ==
    [][ call'.op = "Database.share_filter" => C15_Step ]_vars

\* Where the code meets C15: on a connection that no failed statement has
\* left aborted.
C15_ShareNeedsPartnershipOnUsableConnection ==
    [][ (call'.op = "Database.share_filter" /\ txn = "idle") => C15_Step ]_vars

\* No share is ever recorded without an accepted partnership at that time.
C15_NoShareWithoutPartnership ==
    [][ \A s \in shared_filters' \ shared_filters :
            C15_Partners(s.owner_id, s.shared_with_id) ]_vars

\* A call was refused for a pending partnership; a call succeeded and the
\* partner's list has the filter.
C15_RefusedWhilePending ==
    /\ call.op = "Database.share_filter" /\ C15_Refused(ret)
    /\ \E p \in user_partnerships :
           /\ p.status = "pending"
           /\ {p.user_id, p.partner_id} = {call.owner_id, call.partner_id}

C15_SharedAndListed ==
    /\ call.op = "Database.share_filter" /\ C15_Succeeded(ret)
    /\ C15_Listed(SHARING, call.partner_id, call.filter_id)

\* ------------------------------------------------------------------------
\* C16: the status of a partnership
\* ------------------------------------------------------------------------

\* C16, first part: in every reachable state the status of a partnership is
\* one of pending, accepted, rejected, and a new partnership is pending.
C16_StatusOfTheThree ==
    \A p \in user_partnerships : p.status \in {"pending", "accepted", "rejected"}

C16_BornPending ==
    [][ \A p \in user_partnerships' :
            (\A q \in user_partnerships : q.id # p.id) => p.status = "pending" ]_vars

\* C16: the status of a partnership follows pending -> {accepted, rejected}
\* and both are terminal: the status is always one of pending, accepted,
\* rejected, and once a partnership is accepted or rejected no call of
\* update_partnership_status changes its status again.
C16_AcceptedAndRejectedTerminal ==
    [][ /\ \A p \in user_partnerships' :
               p.status \in {"pending", "accepted", "rejected"}
        /\ \A p \in user_partnerships, q \in user_partnerships' :
               (p.id = q.id /\ p.status \in {"accepted", "rejected"})
                   => q.status = p.status ]_vars

\* ------------------------------------------------------------------------
\* C17: only the recipient of a request changes its status
\* ------------------------------------------------------------------------

\* The user is the recipient (partner_id) of the partnership of that id.
C17_Recipient(id, user) ==
    \E p \in user_partnerships : p.id = id /\ p.partner_id = user

\* C17, safety part: a call of update_partnership_status changes a
\* partnership only when its user_id is the recipient of that partnership,
\* and then no other partnership.
C17_OnlyTheRecipientChanges ==
    [][ call'.op = "Database.update_partnership_status" =>
          /\ user_partnerships' # user_partnerships =>
                 C17_Recipient(call'.partnership_id, call'.user_id)
          /\ \A p \in user_partnerships :
                 p.id # call'.partnership_id => p \in user_partnerships' ]_vars

\* What C17 says of a call by a user who is not the recipient.
C17_Step ==
    ~C17_Recipient(call'.partnership_id, call'.user_id) =>
        /\ ret'.kind = "return" /\ ret'.val = FALSE
        /\ user_partnerships' = user_partnerships

\* C17: update_partnership_status(id, user_id, status) changes the
\* partnership only when user_id is the recipient (partner_id) of that
\* request; for any other user, the requester too, it returns False and the
\* status is unchanged.
C17_OthersGetFalse ==
    [][ call'.op = "Database.update_partnership_status" =>
          /\ C17_Step
          /\ user_partnerships' # user_partnerships =>
                 C17_Recipient(call'.partnership_id, call'.user_id) ]_vars

\* Where the code meets C17: on a connection that no failed statement has
\* left aborted.
C17_OthersGetFalseOnUsableConnection ==
    [][ (call'.op = "Database.update_partnership_status" /\ txn = "idle") =>
          C17_Step ]_vars

\* The requester tried to accept their own request and got False; the
\* recipient accepted it.
C17_RequesterRefused ==
    /\ call.op = "Database.update_partnership_status"
    /\ ret.kind = "return" /\ ret.val = FALSE
    /\ \E p \in user_partnerships :
           p.id = call.partnership_id /\ p.user_id = call.user_id
               /\ p.status = "pending"

C17_RecipientAccepted ==
    /\ call.op = "Database.update_partnership_status"
    /\ ret.kind = "return" /\ ret.val = TRUE /\ call.status = "accepted"
    /\ \E p \in user_partnerships :
           p.id = call.partnership_id /\ p.partner_id = call.user_id
               /\ p.status = "accepted"

\* ------------------------------------------------------------------------
\* C18: partnership requests
\* ------------------------------------------------------------------------

\* The users of the name, and the partnerships between the user a and one
\* of them, either way.
C18_Targets(name) == {u \in users : u.username = name}

C18_Existing(a, name) ==
    {p \in user_partnerships : \E u \in C18_Targets(name) :
        {p.user_id, p.partner_id} = {a, u.id}}

\* What C18 says of a call send_partnership_request(a, name).
C18_Step(a, name) ==
    IF C18_Targets(name) = {} \/ (\E u \in C18_Targets(name) : u.id = a)
           \/ C18_Existing(a, name) # {}
    THEN /\ ret'.kind = "return" /\ ret'.val.id.null /\ ret'.val.error # ""
         /\ C18_Existing(a, name) # {} =>
                \E p \in C18_Existing(a, name) : ret'.val.status = p.status
         /\ user_partnerships' = user_partnerships
    ELSE /\ ret'.kind = "return" /\ ~ret'.val.id.null
         /\ \E p \in user_partnerships' :
                /\ user_partnerships' = user_partnerships \cup {p}
                /\ p \notin user_partnerships
                /\ p.id = ret'.val.id.val
                /\ p.user_id = a /\ p.partner_id \in {u.id : u \in C18_Targets(name)}
                /\ p.status = "pending"

\* C18: send_partnership_request(user_id, partner_username) creates no
\* partnership and returns an error when no user has the name, when the
\* target is the requester, or when a partnership between the two exists
\* either way (the error then reports its status); otherwise it creates
\* exactly one partnership, pending, from the requester to the target.
C18_OneRequestOrAnError ==
    [][ call'.op = "Database.send_partnership_request" =>
          C18_Step(call'.user_id, call'.partner_username) ]_vars

\* Where the code meets C18: on a connection that no failed statement has
\* left aborted.
C18_OneRequestOrAnErrorOnUsableConnection ==
    [][ (call'.op = "Database.send_partnership_request" /\ txn = "idle") =>
          C18_Step(call'.user_id, call'.partner_username) ]_vars

\* In no state does a call create a partnership it should not.
C18_NoWrongPartnership ==
    [][ call'.op = "Database.send_partnership_request" =>
          \/ user_partnerships' = user_partnerships
          \/ /\ C18_Existing(call'.user_id, call'.partner_username) = {}
             /\ \E p \in user_partnerships' :
                    /\ user_partnerships' = user_partnerships \cup {p}
                    /\ p.user_id = call'.user_id /\ p.user_id # p.partner_id
                    /\ p.status = "pending" ]_vars

\* A request was answered with the status of the partnership that the
\* target had asked for before.
C18_ExistingReported ==
    /\ call.op = "Database.send_partnership_request"
    /\ ret.kind = "return" /\ ret.val.id.null /\ ret.val.status = "accepted"
    /\ \E p \in user_partnerships : p.partner_id = call.user_id

C18_Created ==
    /\ call.op = "Database.send_partnership_request"
    /\ ret.kind = "return" /\ ~ret.val.id.null
    /\ \E p \in user_partnerships : p.id = ret.val.id.val /\ p.status = "pending"

\* ------------------------------------------------------------------------
\* C19: the filters a user sees
\* ------------------------------------------------------------------------

\* The ids of the filters in a returned list.
C19_Ids(list) == {list[i].id : i \in 1..Len(list)}

\* The filters the user owns, and the saved filters shared with the user.
C19_Owned(u) == {f.id : f \in {x \in saved_filters : x.user_id = Val(u)}}

C19_SharedWith(u) ==
    {s \in shared_filters : /\ s.shared_with_id = u
                            /\ \E f \in saved_filters : f.id = s.filter_id}

\* The shares whose relation between owner and recipient is accepted.
C19_Accepted(S) == {s \in S : C15_Partners(s.owner_id, s.shared_with_id)}

\* C19: the filters a user sees are exactly the filters the user owns
\* (get_saved_filters) plus the filters shared with the user whose sharing
\* relation is accepted (get_shared_filters); a share whose relation is
\* pending or rejected is in neither list.
C19_OwnedPlusAcceptedShares ==
    /\ call.op = "Database.get_saved_filters" /\ ~call.user_id.null =>
          ret.kind = "return" /\ C19_Ids(ret.val) = C19_Owned(call.user_id.val)
    /\ call.op = "Database.get_shared_filters" =>
          /\ ret.kind = "return"
          /\ C19_Ids(ret.val)
                 = {s.filter_id : s \in C19_Accepted(C19_SharedWith(call.user_id))}

\* What the code returns on a connection that no failed statement has left
\* aborted: the filters the user owns, and every saved filter shared with the
\* user, whatever has become of the partnership since.
C19_OwnedPlusAllShares ==
    txn = "idle" =>
        /\ call.op = "Database.get_saved_filters" /\ ~call.user_id.null =>
              ret.kind = "return" /\ C19_Ids(ret.val) = C19_Owned(call.user_id.val)
        /\ call.op = "Database.get_shared_filters" =>
              /\ ret.kind = "return"
              /\ C19_Ids(ret.val) = {s.filter_id : s \in C19_SharedWith(call.user_id)}

\* A filter is in the list of a user who has rejected the partnership with
\* its owner.
C19_SeenAfterRejection ==
    /\ call.op = "Database.get_shared_filters" /\ ret.kind = "return"
    /\ \E s \in C19_SharedWith(call.user_id) :
           /\ s.filter_id \in C19_Ids(ret.val)
           /\ \E p \in user_partnerships :
                  /\ {p.user_id, p.partner_id} = {s.owner_id, s.shared_with_id}
                  /\ p.status = "rejected"

\* ------------------------------------------------------------------------
\* C20: filters of type and description
\* ------------------------------------------------------------------------

\* The text t is a part of the text s, letter case aside.
C20_Contains(s, t) ==
    \E i \in 1..(Len(s) - Len(t) + 1) :
        SubSeq(str_lower(s), i, i + Len(t) - 1) = str_lower(t)

\* The column of a row as a nullable text.
C20_Column(r, column) == IF column = "type" THEN Val(r.type) ELSE r.description

\* The rows of the owner (all rows without one) whose column contains one
\* of the terms of the value.
C20_Matching(column, value, owner) ==
    LET terms == search_terms(value) IN
    {r \in transactions :
        /\ owner.null \/ SqlEq(r.user_id, owner)
        /\ ~C20_Column(r, column).null
        /\ \E i \in 1..Len(terms) : C20_Contains(C20_Column(r, column).val, terms[i])}

\* The call returned exactly the rows S, each once.
C20_Returned(S) ==
    /\ ret.kind = "return"
    /\ Len(ret.val) = Cardinality(S)
    /\ {ret.val[i].id : i \in 1..Len(ret.val)} = {r.id : r \in S}

\* C20: for the columns type and description and a comma-separated value,
\* filter_transactions returns exactly the transactions (of the owner, when
\* one is given) whose column contains at least one of the terms, letter case
\* aside: the union of the matches of the terms and no other row.
C20_UnionOfTermMatches ==
    ( /\ call.op = "Database.filter_transactions"
      /\ call.column \in {"type", "description"}
      /\ call.value.t = "str" )
        => C20_Returned(C20_Matching(call.column, call.value.s, call.owner_id))

\* Where the code meets C20: values without the characters that LIKE reads
\* as wildcards or as its escape.
C20_UnionOfTermMatchesWithoutWildcards ==
    ( /\ call.op = "Database.filter_transactions"
      /\ call.column \in {"type", "description"}
      /\ call.value.t = "str"
      /\ \A i \in 1..Len(call.value.s) : call.value.s[i] \notin {"%", "_", "\\"} )
        => C20_Returned(C20_Matching(call.column, call.value.s, call.owner_id))

\* Two terms, one in capitals, returned the rows of both; a row was returned
\* for "_", which its description does not contain.
C20_UnionReturned ==
    /\ call.op = "Database.filter_transactions" /\ call.column = "description"
    /\ call.value.t = "str" /\ Len(search_terms(call.value.s)) = 2
    /\ ret.kind = "return" /\ Len(ret.val) = 2
    /\ ret.val[1].description # ret.val[2].description

C20_WildcardReturned ==
    /\ call.op = "Database.filter_transactions" /\ call.column = "description"
    /\ call.value = PyStr(<<"_">>)
    /\ ret.kind = "return" /\ Len(ret.val) > 0

\* ------------------------------------------------------------------------
\* C21: filters of amount
\* ------------------------------------------------------------------------

\* The rows of the owner (all rows without one) whose amount is v.
C21_WithAmount(v, owner) ==
    {r \in transactions :
        (owner.null \/ SqlEq(r.user_id, owner)) /\ r.amount = v}

\* The call is a filter of the column amount.
C21_Filtering ==
    call.op = "Database.filter_transactions" /\ call.column = "amount"

\* C21: filter_transactions("amount", v) returns [] and raises nothing when
\* float(v) fails, and otherwise returns exactly the transactions (of the
\* owner, when one is given) whose amount equals the number v.
C21_AmountFilter ==
    C21_Filtering =>
        IF float(call.value).res # "ok"
        THEN ret = Return(<<>>)
        ELSE C20_Returned(C21_WithAmount(float(call.value).v, call.owner_id))

\* Where the code meets C21: on a connection that is open and whose
\* transaction is not aborted.  Otherwise the answer is [] whatever the
\* table holds.
C21_AmountFilterOnUsableConnection ==
    (C21_Filtering /\ txn = "idle" /\ ~retries.lost) => C21_AmountFilter

\* The first half of C21 holds whatever the connection: a value that
\* float() does not take is answered with [].
C21_UnparsableAnswersEmpty ==
    (C21_Filtering /\ float(call.value).res # "ok") => ret = Return(<<>>)

\* "abc" was answered with [] while the table had rows; "12.35" returned a
\* row, stored from 12.345, and not the row of 30.
C21_UnparsableEmpty ==
    /\ C21_Filtering /\ call.value = PyStr(Abc)
    /\ transactions # {} /\ ret = Return(<<>>)

C21_EqualReturned ==
    /\ C21_Filtering /\ call.value = PyStr(<<"1", "2", ".", "3", "5">>)
    /\ \E r \in transactions : r.amount = Thirty
    /\ ret.kind = "return" /\ Len(ret.val) = 1

\* ------------------------------------------------------------------------
\* C22: the monthly breakdown
\* ------------------------------------------------------------------------

\* The text k is the key YYYY-MM of the month of the date d.
C22_KeyOf(k, d) ==
    /\ Len(k) = 7 /\ AllDigits(k, 1, 4) /\ k[5] = "-" /\ AllDigits(k, 6, 7)
    /\ DigitsVal(k, 1, 4) = d.y /\ DigitsVal(k, 6, 7) = d.m

\* The stored transactions of the month of the key k.
C22_MonthOf(k) == {r \in transactions : C22_KeyOf(k, r.date)}

\* The breakdown mb has one key for each month of a stored transaction and
\* no other key.
C22_Keys(mb) ==
    /\ \A r \in transactions : \E k \in DOMAIN mb : C22_KeyOf(k, r.date)
    /\ \A k \in DOMAIN mb : C22_MonthOf(k) # {}

\* The sum in cents of a set of transactions, income counted positive,
\* expense and subscription negative.
C22_SignedSum(S) ==
    SumOfType(S, Income) - SumOfType(S, Expense) - SumOfType(S, Subscription)

\* C22: monthly_breakdown of get_summary_stats() has one key YYYY-MM for each
\* calendar month of the date of a stored transaction, and the value of a key
\* is the signed sum of the month's transactions: income positive, expense
\* and subscription negative.
C22_MonthlySignedSums ==
    call.op = "get_summary_stats" =>
        /\ ret.kind = "return"
        /\ C22_Keys(ret.val.monthly_breakdown)
        /\ \A k \in DOMAIN ret.val.monthly_breakdown :
               Cents(ret.val.monthly_breakdown[k]) = C22_SignedSum(C22_MonthOf(k))

\* What the code does: on a connection whose transaction is not aborted the
\* keys are the months of the stored transactions, and the value of a key is
\* the sum of the month's amounts as they are stored, expenses added like
\* income.
C22_MonthlyPlainSums ==
    (call.op = "get_summary_stats" /\ txn = "idle") =>
        /\ ret.kind = "return"
        /\ C22_Keys(ret.val.monthly_breakdown)
        /\ \A k \in DOMAIN ret.val.monthly_breakdown :
               Cents(ret.val.monthly_breakdown[k])
                   = SumOfType(C22_MonthOf(k), Income)
                     + SumOfType(C22_MonthOf(k), Expense)
                     + SumOfType(C22_MonthOf(k), Subscription)

\* A transaction dated 2024-01-31 was summed under "2024-01" next to one of
\* March; an expense of 30 and an income of 12.35 of one month gave 42.35.
C22_JanuaryKey ==
    /\ call.op = "get_summary_stats" /\ ret.kind = "return"
    /\ \E r \in transactions : r.date = strptime(Jan31).date
    /\ DOMAIN ret.val.monthly_breakdown
         = { <<"2", "0", "2", "4", "-", "0", "1">>,
             <<"2", "0", "2", "4", "-", "0", "3">> }

C22_ExpenseAdded ==
    /\ call.op = "get_summary_stats" /\ ret.kind = "return"
    /\ {<<r.type, r.amount>> : r \in transactions}
         = {<<Expense, Thirty>>, <<Income, Dec(FALSE, 12, 350)>>}
    /\ ret.val.monthly_breakdown[<<"2", "0", "2", "4", "-", "0", "1">>]
         = Dec(FALSE, 42, 350)

\* ------------------------------------------------------------------------
\* C23: the actions process_chat_message hands back
\* ------------------------------------------------------------------------

\* The action a is safe to dispatch on a table of n rows: its command is
\* add, update or delete; an update or a delete names a row of the table by
\* an integer; an add carries the four fields of a transaction.
C23_Safe(a, n) ==
    /\ ~IsPy(a) /\ "command" \in DOMAIN a
    /\ a.command \in {PyStr(CmdAdd), PyStr(CmdUpdate), PyStr(CmdDelete)}
    /\ a.command \in {PyStr(CmdUpdate), PyStr(CmdDelete)} =>
           /\ "row_number" \in DOMAIN a
           /\ a.row_number.t = "int" /\ ~a.row_number.v.neg
           /\ a.row_number.v.w \in 1..n
    /\ a.command = PyStr(CmdAdd) =>
           /\ "transaction" \in DOMAIN a /\ ~IsPy(a.transaction)
           /\ RequiredFields \subseteq DOMAIN a.transaction

\* process_chat_message handed back an action that is not null.
C23_HandedBack ==
    /\ call.op = "process_chat_message" /\ ret.kind = "return"
    /\ chat.action # PyNone

\* C23: whatever the model replies, an action that process_chat_message
\* hands back and that is not null is safe to dispatch: its command is one of
\* add, update and delete, an update or delete has an integer row_number
\* between 1 and the number of rows of the table given, and an add has all of
\* date, type, description and amount.
C23_HandedBackIsSafe == C23_HandedBack => C23_Safe(chat.action, Len(chat.df))

\* Where the code meets C23: the actions whose command is exactly "add",
\* "update" or "delete".  The others are handed back as they came.
C23_HandedBackIsSafeWhenTagged ==
    ( /\ C23_HandedBack
      /\ Get(chat.action, "command", PyNone)
           \in {PyStr(CmdAdd), PyStr(CmdUpdate), PyStr(CmdDelete)} )
        => C23_Safe(chat.action, Len(chat.df))

\* A delete of a row the table has not was replaced by null; a "Delete" of
\* such a row was handed back.
C23_RowDropped ==
    /\ call.op = "process_chat_message" /\ ret.kind = "return"
    /\ Get(call.result, "action", PyNone)
         = [command |-> PyStr(CmdDelete), row_number |-> PyInt(MaxRows)]
    /\ transactions # {} /\ ret.val.action = PyNone /\ Len(ret.val.message) = 2

C23_UnknownCommandKept ==
    /\ C23_HandedBack
    /\ chat.action = [command |-> PyStr(<<"D", "e", "l", "e", "t", "e">>),
                      row_number |-> PyInt(MaxRows + 1)]

\* ------------------------------------------------------------------------
\* C24: the frame of the operations by row number
\* ------------------------------------------------------------------------

\* The step is a call by row number of a row the table has, read on a
\* connection that is not aborted.
C24_ByRow ==
    /\ call'.op \in {"delete_transaction_by_row", "update_transaction_by_row"}
    /\ valid_row_number(call'.row_number)
    /\ get_transactions_df(DB).ret.kind = "return"
    /\ call'.row_number.v.w <= Len(get_transactions_df(DB).ret.val)

\* The id of the transaction at the position of get_transactions_df() that
\* the call names.
C24_Target == get_transactions_df(DB).ret.val[call'.row_number.v.w].id

\* The stored transactions other than the target that have its date,
\* description and amount.
C24_Twins ==
    {r \in transactions :
        /\ r.id # C24_Target
        /\ \E t \in transactions :
              /\ t.id = C24_Target /\ r.date = t.date /\ r.amount = t.amount
              /\ r.description = t.description}

\* C24: delete_transaction_by_row(n) and update_transaction_by_row(n, updates)
\* leave every stored transaction unchanged but the one at position n of
\* get_transactions_df(), also when other transactions have the date,
\* description and amount of that one.
C24_OnlyTheTargetedRow ==
    [][C24_ByRow =>
          \A r \in transactions : r.id # C24_Target => r \in transactions']_vars

\* Where the code meets C24: when no other transaction has the date,
\* description and amount of the targeted one.
C24_OnlyTheTargetedRowWithoutTwins ==
    [][(C24_ByRow /\ C24_Twins = {}) =>
          \A r \in transactions : r.id # C24_Target => r \in transactions']_vars

\* What the code changes: the targeted transaction and its twins.
C24_OnlyTheTargetAndItsTwins ==
    [][C24_ByRow =>
          \A r \in transactions \ C24_Twins :
              r.id # C24_Target => r \in transactions']_vars

\* ------------------------------------------------------------------------
\* C25: row numbers and the table they were read from
\* ------------------------------------------------------------------------

\* The step hands process_command a delete or update of a row of the table
\* the chat was given.
C25_Dispatch ==
    /\ call'.op = "process_command"
    /\ {"command", "row_number"} \subseteq DOMAIN chat.action
    /\ chat.action.command \in {PyStr(CmdDelete), PyStr(CmdUpdate)}
    /\ valid_row_number(chat.action.row_number)
    /\ chat.action.row_number.v.w <= Len(chat.df)

\* The id of the transaction that had the row number in the table the chat
\* was given.
C25_Target == chat.df[chat.action.row_number.v.w].id

\* The table is the one the chat was given, and no two of its transactions
\* have the same date, description and amount.
C25_SameTable ==
    /\ get_transactions_df(DB).ret.kind = "return"
    /\ get_transactions_df(DB).ret.val = chat.df
    /\ \A r, q \in transactions :
          (r.date = q.date /\ r.description = q.description /\ r.amount = q.amount)
              => r = q

\* C25: a delete or update command by row number changes no transaction but
\* the one that had that row number in the table given to
\* process_chat_message, whatever another session inserted or deleted
\* between that read and process_command.
C25_OnlyTheRowOfTheTableRead ==
    [][C25_Dispatch =>
          \A r \in transactions : r.id # C25_Target => r \in transactions']_vars

\* Where the code meets C25: when the table is still the one the chat was
\* given and holds no two transactions alike.
C25_OnlyTheRowOfTheSameTable ==
    [][(C25_Dispatch /\ C25_SameTable) =>
          \A r \in transactions : r.id # C25_Target => r \in transactions']_vars

\* ------------------------------------------------------------------------
\* C26: whose filters a user can share
\* ------------------------------------------------------------------------

\* The filter of the share s is stored and belongs to the user who shared it.
C26_OwnShare(s) ==
    \E f \in saved_filters : f.id = s.filter_id /\ f.user_id = Val(s.owner_id)

\* C26: share_filter(filter_id, owner_id, partner_id) records a share only
\* when the filter filter_id is stored and belongs to owner_id, so that no
\* user makes a filter of a third user visible to a partner.
C26_OnlyOwnFiltersShared ==
    [][\A s \in shared_filters' \ shared_filters : C26_OwnShare(s)]_vars

\* What the code checks of a share at the time it is recorded: the accepted
\* partnership between the two users named, and nothing of the filter.
C26_OnlyPartnershipChecked ==
    [][\A s \in shared_filters' \ shared_filters :
           /\ call'.op = "Database.share_filter"
           /\ s.owner_id = call'.owner_id /\ s.shared_with_id = call'.partner_id
           /\ s.filter_id = call'.filter_id
           /\ C15_Partners(s.owner_id, s.shared_with_id)]_vars

\* The list of shared filters of a user has a filter of a third user: its
\* owner is neither the user nor the one who shared it.
C26_ThirdUsersFilterListed ==
    /\ call.op = "Database.get_shared_filters" /\ ret.kind = "return"
    /\ \E i \in 1..Len(ret.val) :
          \E f \in saved_filters, s \in shared_filters :
              /\ f.id = ret.val[i].id /\ s.filter_id = f.id
              /\ s.shared_with_id = call.user_id
              /\ f.user_id \notin {Val(s.owner_id), Val(call.user_id)}

\* ------------------------------------------------------------------------
\* C27: shared filters and the partnerships behind them
\* ------------------------------------------------------------------------

\* The filters with the id are owned by users who have an accepted
\* partnership with the user u.
C27_OwnerIsPartner(id, u) ==
    \A f \in saved_filters :
        f.id = id => ~f.user_id.null /\ C15_Partners(f.user_id.val, u)

\* C27: every filter that get_shared_filters(u) returns is owned by a user
\* who has an accepted partnership with u at that time: once the status of
\* the partnership is no longer accepted, or the filter is deleted, the
\* filter is not in the list.
C27_ListedThroughAcceptedPartnership ==
    call.op = "Database.get_shared_filters" =>
        /\ ret.kind = "return"
        /\ \A i \in 1..Len(ret.val) :
              /\ \E f \in saved_filters : f.id = ret.val[i].id
              /\ C27_OwnerIsPartner(ret.val[i].id, call.user_id)

\* The part of C27 the code keeps: a filter that is listed is stored, so a
\* deleted filter leaves the list, and it was shared with the user.
C27_ListedIsStoredAndShared ==
    (call.op = "Database.get_shared_filters" /\ ret.kind = "return") =>
        \A i \in 1..Len(ret.val) :
            /\ \E f \in saved_filters : f.id = ret.val[i].id
            /\ \E s \in shared_filters :
                  s.filter_id = ret.val[i].id /\ s.shared_with_id = call.user_id

\* A filter of its owner is listed for a user whose partnership with the
\* owner is rejected; the list of a user is empty after the filter shared
\* with the user was deleted.
C27_ListedAfterRejection ==
    /\ call.op = "Database.get_shared_filters" /\ ret.kind = "return"
    /\ \E i \in 1..Len(ret.val) : \E f \in saved_filters, p \in user_partnerships :
          /\ f.id = ret.val[i].id /\ ~f.user_id.null
          /\ {p.user_id, p.partner_id} = {f.user_id.val, call.user_id}
          /\ p.status = "rejected"

C27_GoneAfterDelete ==
    /\ call.op = "Database.get_shared_filters"
    /\ ret.kind = "return" /\ Len(ret.val) = 0
    /\ saved_filters = {}
    /\ \E s \in shared_filters : s.shared_with_id = call.user_id

\* ---------------------------------------------------------------------------
\* C28  One partnership per pair of users, also under concurrent requests
\* ---------------------------------------------------------------------------

\* The rows of user_partnerships between the users of row p, in either
\* direction.
C28_OfThePair(p) ==
    {q \in user_partnerships :
        {q.user_id, q.partner_id} = {p.user_id, p.partner_id}}

\* The ids of the partners a call of get_partners lists.
C28_Listed == {ret.val[i].id : i \in 1..Len(ret.val)}

C28_GotPartners == call.op = "Database.get_partners" /\ ret.kind = "return"

\* C28: in every reachable state (requests of two sessions interleaved
\* included) user_partnerships holds at most one row per unordered pair of
\* users, and a list returned by get_partners names no partner twice.
\* Stated as the claim states it; violated when the SELECTs of two requests
\* for one pair both precede the two INSERTs.
C28_OnePartnershipPerPair ==
    /\ \A p \in user_partnerships : C28_OfThePair(p) = {p}
    /\ C28_GotPartners => Cardinality(C28_Listed) = Len(ret.val)

\* What holds of the code under the interleaved requests: a pair has at most
\* one row for each request that passed its SELECTs (MaxRequests of them
\* here), and get_partners lists a partner once for each accepted row of the
\* pair.
C28_OneRowPerPassedRequest ==
    /\ \A p \in user_partnerships : Cardinality(C28_OfThePair(p)) <= MaxRequests
    /\ C28_GotPartners =>
           \A u \in UserIds :
               Cardinality({i \in 1..Len(ret.val) : ret.val[i].id = u}) =
                   Cardinality({p \in user_partnerships :
                                   /\ {p.user_id, p.partner_id} = {call.user_id, u}
                                   /\ u # call.user_id
                                   /\ p.status = "accepted"})

\* A pair with two rows, both accepted, and the partner listed twice.
C28_PartnerListedTwice ==
    /\ C28_GotPartners
    /\ Len(ret.val) = 2
    /\ ret.val[1].id = ret.val[2].id

\* Two requests of opposite directions both past their SELECTs.
C28_BothPastTheirSelects ==
    /\ requests[1] # NoRequest
    /\ requests[2] # NoRequest
    /\ requests[1].user_id = requests[2].partner_id
    /\ requests[1].partner_id = requests[2].user_id

\* ---------------------------------------------------------------------------
\* C29  One call of Database.add_transaction inserts at most one row
\* ---------------------------------------------------------------------------

\* The step is a call of Database.add_transaction; the rows it inserted.
C29_Called == call'.op = "Database.add_transaction"

C29_Inserted == transactions' \ transactions

\* C29: a call of Database.add_transaction inserts at most one row, and
\* exactly one when it returns an id, wherever a connectivity failure strikes
\* (before the INSERT, between INSERT and commit, or during the commit).
\* Stated as the claim states it; violated when the commit raises after the
\* server has committed and the next attempt runs the INSERT again.
C29_AtMostOneRowPerCall ==
    [][ C29_Called =>
            /\ Cardinality(C29_Inserted) <= 1
            /\ ret'.kind = "return" => Cardinality(C29_Inserted) = 1 ]_vars

\* What holds of the code: a call inserts at most one row for each run of
\* its statement block; a call that returns an id has inserted the row of
\* that id, and the rows it inserted are copies of one transaction.
C29_AtMostOneRowPerRun ==
    [][ C29_Called =>
            /\ Cardinality(C29_Inserted) <= retries'.runs
            /\ ret'.kind = "return" =>
                   \E r \in C29_Inserted : r.id = ret'.val
            /\ \A r, q \in C29_Inserted :
                   Columns(r) = [Columns(q) EXCEPT !.id = r.id] ]_vars

\* Two copies of one transaction in the store after one call that returned
\* an id.
C29_TwoCopies ==
    /\ call.op = "Database.add_transaction"
    /\ ret.kind = "return"
    /\ retries.runs = 2
    /\ \E r, q \in transactions :
           r.id # q.id /\ Columns(r) = [Columns(q) EXCEPT !.id = r.id]

\* A call that raised after its three attempts and left a row in the store.
C29_RaisedAndInserted ==
    /\ call.op = "Database.add_transaction"
    /\ ret.kind = "raise"
    /\ retries.runs = max_retries
    /\ transactions # {}

\* ---------------------------------------------------------------------------
\* C30  get_latest_transaction_ids(limit=n) and the scopes last_n and
\*      all_except_last_n
\* ---------------------------------------------------------------------------

\* The ids of an outcome that returned a list, as a set; none when it raised.
C30_Ids(o) ==
    IF o.ret.kind = "return" THEN {o.ret.val[i] : i \in 1..Len(o.ret.val)} ELSE {}

\* The ids the scopes last_n and all_except_last_n select for n in the store
\* of the state.
C30_Last(n) == C30_Ids(ids_to_delete(DB, "last_n", n, <<>>))

C30_AllButLast(n) == C30_Ids(ids_to_delete(DB, "all_except_last_n", n, <<>>))

\* The step is a deletion of one of the two scopes, or a call of
\* get_latest_transaction_ids, with an int n >= 0.
C30_Scoped ==
    /\ call'.op = "deletion"
    /\ call'.deletion_type \in {"last_n", "all_except_last_n"}
    /\ call'.n.t = "int" /\ ~call'.n.v.neg

C30_Asked ==
    /\ call'.op = "Database.get_latest_transaction_ids"
    /\ call'.limit.t = "int" /\ ~call'.limit.v.neg

\* The n ids created last among the rows of the store of the state.
C30_Latest(n) ==
    {r.id : r \in {x \in transactions :
                      Cardinality({q \in transactions :
                                      q.created_at > x.created_at}) < n}}

\* C30: for every n >= 0, get_latest_transaction_ids(limit=n) returns at most
\* n ids, the n created last; the scope last_n selects at most n
\* transactions; last_n and all_except_last_n for one n partition the ids of
\* all transactions; and last_n with n = 0 selects nothing, so its deletion
\* leaves the table as it was.  Stated as the claim states it; violated by
\* n = 0, for which no LIMIT is put on the query.
C30_LastNAtMostN ==
    [][ /\ C30_Asked =>
              /\ ret'.kind = "return"
              /\ Len(ret'.val) <= call'.limit.v.w
              /\ {ret'.val[i] : i \in 1..Len(ret'.val)} = C30_Latest(call'.limit.v.w)
        /\ C30_Scoped =>
              /\ Cardinality(C30_Last(call'.n)) <= call'.n.v.w
              /\ C30_Last(call'.n) \cap C30_AllButLast(call'.n) = {}
              /\ C30_Last(call'.n) \cup C30_AllButLast(call'.n) =
                     {r.id : r \in transactions}
              /\ (call'.n.v.w = 0 /\ call'.deletion_type = "last_n") =>
                     transactions' = transactions ]_vars

\* What holds of the code: the same for every n >= 1 on a connection whose
\* transaction is not aborted.
C30_LastNAtMostNFromOne ==
    [][ /\ (C30_Asked /\ call'.limit.v.w >= 1 /\ txn # "aborted") =>
              /\ ret'.kind = "return"
              /\ Len(ret'.val) <= call'.limit.v.w
              /\ {ret'.val[i] : i \in 1..Len(ret'.val)} = C30_Latest(call'.limit.v.w)
        /\ (C30_Scoped /\ call'.n.v.w >= 1 /\ txn # "aborted") =>
              /\ Cardinality(C30_Last(call'.n)) <= call'.n.v.w
              /\ C30_Last(call'.n) = C30_Latest(call'.n.v.w)
              /\ C30_Last(call'.n) \cap C30_AllButLast(call'.n) = {}
              /\ C30_Last(call'.n) \cup C30_AllButLast(call'.n) =
                     {r.id : r \in transactions} ]_vars

\* And for n = 0 on such a connection: both scopes select every id.
C30_ZeroSelectsAll ==
    [][ (C30_Scoped /\ call'.n.v.w = 0 /\ txn # "aborted") =>
            /\ C30_Last(call'.n) = {r.id : r \in transactions}
            /\ C30_AllButLast(call'.n) = {r.id : r \in transactions} ]_vars

\* A deletion of the scope last_n with n = 0 has deleted the two rows of the
\* table.
C30_LastZeroDeletedAll ==
    /\ call.op = "deletion"
    /\ call.deletion_type = "last_n"
    /\ call.n = PyInt(0)
    /\ ret.kind = "return"
    /\ Len(ret.val) = MaxRows
    /\ \A i \in 1..Len(ret.val) : ret.val[i].success
    /\ transactions = {}

\* A deletion of the scope last_n with n = 1 has left the older row.
C30_LastOneDeletedOne ==
    /\ call.op = "deletion"
    /\ call.deletion_type = "last_n"
    /\ call.n = PyInt(1)
    /\ ret.kind = "return"
    /\ Len(ret.val) = 1
    /\ ret.val[1].success
    /\ Cardinality(transactions) = 1

====
